---- MODULE Spec2Model ----
(***************************************************************************)
(* Verification model of the Learning-assistant repository:                *)
(*   - services/vector_store.py  (VectorStoreService)                      *)
(*   - agents/quiz_agent.py, flashcard_agent.py, flowchart_agent.py        *)
(*                                                                         *)
(* Spec      : the vector store, one whole call per step.                  *)
(* SpecCtx   : the same with get_all_chunks, get_context_for_generation.  *)
(* SpecConc  : the vector store, calls of several request threads          *)
(*             interleaved at their file-system operations.                *)
(* SpecGen   : the response validators of the generation agents.           *)
(***************************************************************************)
EXTENDS Integers, Sequences, FiniteSets, TLC

(***************************************************************************)
(* Bounds of the model.                                                    *)
(***************************************************************************)
\* CHUNK_SIZE / CHUNK_OVERLAP of vector_store.py:41-42 are 1000 and 200;
\* the model keeps the relation 0 <= overlap < size on texts of a few
\* characters.
ChunkSize == 3
ChunkOverlap == 1
\* embedding coordinates are drawn from 0..MaxVec (vectors are 1-dimensional)
MaxVec == 1
\* top_k / max_chunks arguments are drawn from 0..MaxTopK
MaxTopK == 2
\* number of add_document calls that get as far as writing a file
MaxBuilds == 2
\* length of the item list of a parsed response
MaxItems == 3
\* number of agent instances constructed
MaxInst == 2
\* length of the texts handed to the text splitter
MaxTextLen == 4
\* number of tokens of the response texts handed to the response parsers
MaxRespLen == 5

DocIds == {"d1", "d2"}
Procs == {"p1", "p2"}
Vecs == 0..MaxVec
TopKs == 0..MaxTopK
\* document texts: sequences of characters.  None of the characters is one
\* of the splitter's separators ("\n\n", "\n", ". ", " "), so the splitter
\* always arrives at its last separator "".
Texts == { <<>>,
           <<"a", "b">>,
           <<"c", "d", "e", "f">> }
\* a query is the empty string or a non-empty string
Queries == {"", "q"}

NONE == "none"
\* token standing for the section delimiter "\n\n---\n\n"
Delim == "---"
\* distance FAISS reports for a result slot it could not fill (FLT_MAX):
\* larger than every squared distance between two model vectors
FltMax == (MaxVec + 1) * (MaxVec + 1)

Min(a, b) == IF a < b THEN a ELSE b
Max(a, b) == IF a > b THEN a ELSE b

(***************************************************************************)
(* State.                                                                  *)
(***************************************************************************)
VARIABLES
    index,      \* index[d]: the file <store_dir>/<d>.index
    meta,       \* meta[d] : the file <store_dir>/<d>.json
    nbuilds,    \* number of add_document calls that reached the file writes
    built,      \* ids some add_document call has written a file for
    ret,        \* the call that returned last, with its arguments and result
    pc,         \* SpecConc: position of each request thread in its call
    loc,        \* SpecConc: the locals of each thread's call
    gin,        \* SpecGen: the parsed response handed to a validator
    gout,       \* SpecGen: the result of generate
    agents,     \* AgentRegistry._agents: name -> class, in insertion order
    instances,  \* AgentRegistry._instances: cache key -> instance
    ninst,      \* number of agent instances constructed so far
    served,     \* per (name, configuration): the instance get returned last;
                \* 0 before the first call, -1 when an unregister or a
                \* clear_cache came after the last call
    rret,       \* the registry call that returned last, with its result
    rpc,        \* SpecRegConc: position of each thread in its call of get
    rloc,       \* SpecRegConc: the locals and the result of each thread's get
    imported,   \* SpecStartup: number of agent modules agents/__init__.py
                \* has imported
    xpc,        \* SpecExt: position of each thread around its external call
    xret,       \* SpecExt: the operation of each thread and its result
    stext,      \* SpecChunk: the text handed to the text splitter
    schunks,    \* SpecChunk: the chunks the splitter returned
    presp,      \* SpecParse: the response text handed to a response parser
    pout        \* SpecParse: what the parser returned

vars == <<index, meta, nbuilds, built, ret, pc, loc, gin, gout,
          agents, instances, ninst, served, rret, rpc, rloc, imported,
          xpc, xret, stext, schunks, presp, pout>>
storeVars == <<index, meta, nbuilds, built>>
concVars == <<pc, loc>>
genVars == <<gin, gout>>
extVars == <<xpc, xret>>
pureVars == <<stext, schunks, presp, pout>>
regVars ==
    <<agents, instances, ninst, served, rret, rpc, rloc, imported, extVars,
      pureVars>>

(***************************************************************************)
(* Text splitter (RecursiveCharacterTextSplitter, chunk_size = ChunkSize,  *)
(* chunk_overlap = ChunkOverlap, last separator "": the splits are the     *)
(* single characters and _merge_splits joins them).                        *)
(***************************************************************************)
\* the `while total > chunk_overlap or (total + len > chunk_size and
\* total > 0)` loop of _merge_splits: drop splits from the front
RECURSIVE PopFront(_)
PopFront(doc) ==
    IF Len(doc) > ChunkOverlap \/ (Len(doc) + 1 > ChunkSize /\ Len(doc) > 0)
    THEN PopFront(Tail(doc))
    ELSE doc

RECURSIVE MergeSplits(_, _, _)
MergeSplits(splits, current_doc, docs) ==
    IF splits = <<>>
    THEN IF current_doc = <<>> THEN docs ELSE Append(docs, current_doc)
    ELSE IF Len(current_doc) + 1 > ChunkSize /\ Len(current_doc) > 0
         THEN MergeSplits(Tail(splits),
                          Append(PopFront(current_doc), Head(splits)),
                          Append(docs, current_doc))
         ELSE MergeSplits(Tail(splits), Append(current_doc, Head(splits)), docs)

split_text(text) == MergeSplits(text, <<>>, <<>>)

(***************************************************************************)
(* FAISS IndexFlatL2.                                                      *)
(***************************************************************************)
L2(a, b) == (a - b) * (a - b)

\* (distance, label) pairs ordered by distance, then by label
Closer(x, y) == x[1] < y[1] \/ (x[1] = y[1] /\ x[2] < y[2])

RECURSIVE SortPairs(_)
SortPairs(S) ==
    IF S = {} THEN <<>>
    ELSE LET m == CHOOSE x \in S : \A y \in S \ {x} : Closer(x, y)
         IN  <<m>> \o SortPairs(S \ {m})

\* index.search(query, k) on one query vector: k (distance, label) pairs,
\* labels 0-based, nearest first; slots beyond ntotal hold (FLT_MAX, -1)
FlatSearch(vectors, q, k) ==
    LET found == SortPairs({ <<L2(vectors[i], q), i - 1>> : i \in 1..Len(vectors) })
    IN  [j \in 1..k |-> IF j <= Len(found) THEN found[j] ELSE <<FltMax, -1>>]

\* [chunks[i] for i in indices[0] if i < len(chunks)]  (a negative i counts
\* from the end of the list)
RECURSIVE PickChunks(_, _)
PickChunks(chunks, labels) ==
    IF labels = <<>> THEN <<>>
    ELSE LET i == Head(labels)
             rest == PickChunks(chunks, Tail(labels))
         IN  IF i < Len(chunks)
             THEN <<chunks[IF i < 0 THEN Len(chunks) + 1 + i ELSE i + 1]>> \o rest
             ELSE rest

\* "\n\n---\n\n".join(chunks)
RECURSIVE Join(_)
Join(chunks) ==
    IF chunks = <<>> THEN <<>>
    ELSE IF Len(chunks) = 1 THEN chunks[1]
    ELSE chunks[1] \o <<Delim>> \o Join(Tail(chunks))

\* chunks[:n] for n >= 0
Prefix(s, n) == SubSeq(s, 1, Min(n, Len(s)))


(***************************************************************************)
(* VectorStoreService: results and file contents.                          *)
(***************************************************************************)
\* what a call hands back to its caller.  One shape for every operation:
\*   success, chunk_count, error   add_document
\*   chunks, scores, success, error  search / get_all_chunks
\*   context                       get_context_for_generation
\*   value                         delete_document / document_exists
\* op, doc, key, text, query, top_k repeat the call; qemb is what embed_query
\* answered; labels, ibuild, mbuild record the FAISS labels the search got
\* and which add_document call wrote the two files it loaded; prior is the
\* chunk list the metadata file held when add_document was called.
NoRet ==
    [op |-> "init", doc |-> NONE, key |-> FALSE, text |-> <<>>, query |-> "",
     top_k |-> 0, qemb |-> <<>>, prior |-> <<>>,
     success |-> FALSE, chunk_count |-> 0, error |-> NONE,
     chunks |-> <<>>, scores |-> <<>>, labels |-> <<>>, context |-> <<>>,
     value |-> FALSE, ibuild |-> 0, mbuild |-> 0]

\* the serialized FAISS index written by add_document call number b
IndexFile(vectors, b) == [exists |-> TRUE, vectors |-> vectors, build |-> b]

\* no file at the index path
NoIndex == [exists |-> FALSE, vectors |-> <<>>, build |-> 0]

\* the JSON sidecar written by add_document call number b
MetaFile(chunks, b) ==
    [exists |-> TRUE, chunks |-> chunks, chunk_count |-> Len(chunks),
     dimension |-> 1, build |-> b]

\* no file at the metadata path
NoMeta == [exists |-> FALSE, chunks |-> <<>>, chunk_count |-> 0,
           dimension |-> 0, build |-> 0]

\* embed_documents(chunks): one vector per chunk, values not under the
\* program's control, or <<>> when the request raises
Embeddings(chunks) == [1..Len(chunks) -> Vecs] \cup {<<>>}

\* embed_query(query): <<v>> for the vector v, or <<>> when the request raises
QueryEmbeddings == { <<v>> : v \in Vecs } \cup {<<>>}

AddFail(d, text, key, prior, err) ==
    [NoRet EXCEPT !.op = "add_document", !.doc = d, !.text = text, !.key = key,
                  !.prior = prior,
                  !.success = FALSE, !.chunk_count = 0, !.error = err]

AddOk(d, text, key, prior, chunks) ==
    [NoRet EXCEPT !.op = "add_document", !.doc = d, !.text = text, !.key = key,
                  !.prior = prior,
                  !.success = TRUE, !.chunk_count = Len(chunks)]

SearchFail(d, query, top_k, key, err) ==
    [NoRet EXCEPT !.op = "search", !.doc = d, !.query = query, !.top_k = top_k,
                  !.key = key, !.success = FALSE, !.error = err]

\* SearchLoaded with `k = top_k` in place of `k = min(top_k, len(chunks))`
SearchLoaded_NoMin(d, query, top_k, key, idx, mt, qemb) ==
    LET chunks == mt.chunks
        k == top_k
        res == FlatSearch(idx.vectors, qemb[1], k)
        labels == [j \in 1..k |-> res[j][2]]
    IN  IF qemb = <<>> \/ k <= 0
        THEN [SearchFail(d, query, top_k, key, "exception") EXCEPT
                 !.qemb = qemb, !.ibuild = idx.build, !.mbuild = mt.build]
        ELSE [NoRet EXCEPT !.op = "search", !.doc = d, !.query = query,
                 !.top_k = top_k, !.key = key, !.success = TRUE,
                 !.chunks = PickChunks(chunks, labels),
                 !.scores = [j \in 1..k |-> res[j][1]],
                 !.labels = labels, !.qemb = qemb,
                 !.ibuild = idx.build, !.mbuild = mt.build]

\* lines 186-205 of search, on the loaded index and metadata
SearchLoaded(d, query, top_k, key, idx, mt, qemb) ==
    LET chunks == mt.chunks
        k == Min(top_k, Len(chunks))
        res == FlatSearch(idx.vectors, qemb[1], k)
        labels == [j \in 1..k |-> res[j][2]]
    IN  IF qemb = <<>> \/ k <= 0
        THEN \* embed_query raised, or index.search rejected k = 0
             [SearchFail(d, query, top_k, key, "exception") EXCEPT
                 !.qemb = qemb, !.ibuild = idx.build, !.mbuild = mt.build]
        ELSE [NoRet EXCEPT !.op = "search", !.doc = d, !.query = query,
                 !.top_k = top_k, !.key = key, !.success = TRUE,
                 !.chunks = PickChunks(chunks, labels),
                 !.scores = [j \in 1..k |-> res[j][1]],
                 !.labels = labels, !.qemb = qemb,
                 !.ibuild = idx.build, !.mbuild = mt.build]

\* SearchResult without the `exists()` test of the two paths
SearchResult_NoExistsCheck(d, query, top_k, key, ix, mt, qemb) ==
    IF ~key THEN SearchFail(d, query, top_k, key, "not_configured")
    ELSE SearchLoaded(d, query, top_k, key, ix, mt, qemb)

\* search as one call on the files ix, mt of the document
SearchResult(d, query, top_k, key, ix, mt, qemb) ==
    IF ~key THEN SearchFail(d, query, top_k, key, "not_configured")
    ELSE IF ~ix.exists \/ ~mt.exists
         THEN SearchFail(d, query, top_k, key, "index_not_found")
         ELSE SearchLoaded(d, query, top_k, key, ix, mt, qemb)

GetAllChunksResult(d, mt) ==
    IF ~mt.exists
    THEN [NoRet EXCEPT !.op = "get_all_chunks", !.doc = d, !.success = FALSE,
                       !.error = "doc_not_found"]
    ELSE [NoRet EXCEPT !.op = "get_all_chunks", !.doc = d, !.success = TRUE,
                       !.chunks = mt.chunks]

\* GetContextResult falling back to the stored chunks when the search gives
\* nothing
GetContextResult_Fallback(d, query, max_chunks, key, ix, mt, qemb) ==
    LET all == GetAllChunksResult(d, mt)
        first == IF all.success
                 THEN [all EXCEPT !.chunks = Prefix(all.chunks, max_chunks)]
                 ELSE all
        found == SearchResult(d, query, max_chunks, key, ix, mt, qemb)
        result == IF query # "" /\ found.success /\ found.chunks # <<>>
                  THEN found
                  ELSE first
    IN  [result EXCEPT !.op = "get_context_for_generation", !.query = query,
                       !.top_k = max_chunks, !.key = key,
                       !.context = IF ~result.success \/ result.chunks = <<>>
                                   THEN <<>>
                                   ELSE Join(result.chunks)]

GetContextResult(d, query, max_chunks, key, ix, mt, qemb) ==
    LET all == GetAllChunksResult(d, mt)
        result == IF query # ""
                  THEN SearchResult(d, query, max_chunks, key, ix, mt, qemb)
                  ELSE IF all.success
                       THEN [all EXCEPT !.chunks = Prefix(all.chunks, max_chunks)]
                       ELSE all
    IN  [result EXCEPT !.op = "get_context_for_generation", !.query = query,
                       !.top_k = max_chunks, !.key = key,
                       !.context = IF ~result.success \/ result.chunks = <<>>
                                   THEN <<>>
                                   ELSE Join(result.chunks)]

DocumentExistsResult(d, ix) ==
    [NoRet EXCEPT !.op = "document_exists", !.doc = d, !.value = ix.exists]

(***************************************************************************)
(* Spec: the store, one whole call per step.                               *)
(***************************************************************************)
StoreInit ==
    /\ index = [d \in DocIds |-> NoIndex]
    /\ meta = [d \in DocIds |-> NoMeta]
    /\ nbuilds = 0
    /\ built = {}
    /\ ret = NoRet

\* the locals of a call in progress: its arguments, the chunks and vectors
\* add_document computed, the number of the add_document call, the index
\* search has loaded
NoLoc ==
    [doc |-> NONE, text |-> <<>>, query |-> "", top_k |-> 0, chunks |-> <<>>,
     vectors |-> <<>>, build |-> 0, idx |-> NoIndex]

ConcIdle ==
    /\ pc = [p \in Procs |-> "idle"]
    /\ loc = [p \in Procs |-> NoLoc]

\* no response validated yet
\* gin: the response of the generative model as generate sees it
\*   call    : "ok", or "fails" when the generation call raises
\*   top     : what the agent's parse step yields: "none" (nothing parsed),
\*             "bad_span" (a brace span that is no JSON), or the kind of the
\*             JSON value: "dict", "list", "str", "int", "null"
\*   truthy  : bool(value)
\*   holds   : `<expected key> in value` for a dict, str or list
\*   nodes   : `'nodes' in value`
\*   items   : the list under the expected key (for a flowchart response
\*             with 'nodes' and without 'flowcharts', the response itself as
\*             a one-element list)
\*   overall : the value of 'overall_score'
NoGenIn ==
    [agent |-> "none", call |-> "ok", top |-> "none", truthy |-> FALSE,
     holds |-> FALSE, nodes |-> FALSE, items |-> <<>>,
     overall |-> [t |-> "absent", v |-> <<>>, n |-> 0]]
\* gout: the dictionary generate returns
\*   has_items : the dictionary has the key of the artifact list
\*   overall   : overall_score, the fraction num / den
NoGenOut ==
    [agent |-> "none", success |-> FALSE, error |-> NONE, has_items |-> FALSE,
     items |-> <<>>, count |-> 0, overall |-> [num |-> 0, den |-> 1]]

GenIdle ==
    /\ gin = NoGenIn
    /\ gout = NoGenOut

(***************************************************************************)
(* AgentRegistry: names, configurations, cache keys, initial state.       *)
(***************************************************************************)
\* agent classes and their AGENT_NAME attributes
Classes == {"ClsA1", "ClsA2", "ClsAd"}
\* the agent classes of the package that carry @AgentRegistry.register
PackageClasses ==
    {"SummaryAgent", "QuizAgent", "FlashcardAgent", "FlowchartAgent",
     "EvaluationAgent", "PodcastAgent", "ChatbotAgent"}

AgentName ==
    [c \in Classes \union PackageClasses |->
        CASE c = "ClsA1" -> <<"A">>
          [] c = "ClsA2" -> <<"a">>
          [] c = "ClsAd" -> <<"A", "d">>
          [] c = "SummaryAgent" -> <<"s", "u", "m", "m", "a", "r", "y">>
          [] c = "QuizAgent" -> <<"q", "u", "i", "z">>
          [] c = "FlashcardAgent" -> <<"f", "l", "a", "s", "h", "c", "a", "r", "d">>
          [] c = "FlowchartAgent" -> <<"f", "l", "o", "w", "c", "h", "a", "r", "t">>
          [] c = "EvaluationAgent" ->
                <<"e", "v", "a", "l", "u", "a", "t", "i", "o", "n">>
          [] c = "PodcastAgent" -> <<"p", "o", "d", "c", "a", "s", "t">>
          [] c = "ChatbotAgent" -> <<"c", "h", "a", "t", "b", "o", "t">>]

\* the names of the package's agents
PackageNames == { AgentName[c] : c \in PackageClasses }

\* the names get and unregister are called with, and the names the classes
\* are registered under
NameArgs == { <<"a">>, <<"A">>, <<"a", "d">>, <<"e">> }
RegNames == { <<"a">>, <<"a", "d">> }

\* the keyword arguments of get: "none" for a call without any, c1 for
\* {temperature: -1}, c2 for {temperature: -2}
Cfgs == {"none", "c1", "c2"}

\* hash(frozenset(kwargs.items())): hash(-1) and hash(-2) are both -2, so
\* c1 and c2 have one hash
ConfigHash ==
    [c \in Cfgs \ {"none"} |->
        CASE c = "c1" -> "h1" [] c = "c2" -> "h1"]

\* f"{agent_name}_{hash(...)}" if kwargs else agent_name
cache_key(agent_name, kwargs) ==
    IF kwargs = "none" THEN agent_name
    ELSE agent_name \o <<"_", ConfigHash[kwargs]>>

\* the views call get_agent without configuration: the key is the name
Keys == { cache_key(n, c) : n \in RegNames, c \in Cfgs } \union PackageNames

\* an agent instance: the number of its construction, its class and the
\* keyword arguments it was constructed with; id 0 stands for no instance
NoInst == [id |-> 0, cls |-> NONE, cfg |-> NONE]

NoRegRet ==
    [op |-> "init", arg |-> <<>>, name |-> <<>>, cfg |-> "none", ok |-> FALSE,
     error |-> NONE, available |-> <<>>, inst |-> NoInst, cls |-> NONE]

NotServed == [k \in RegNames \X Cfgs |-> 0]
Interrupted == [k \in RegNames \X Cfgs |-> -1]

\* the locals of a thread in get: its arguments, the cache key, the instance
\* it constructed and the instance it returned
NoRegLoc ==
    [name |-> <<>>, cfg |-> "none", key |-> <<>>, made |-> NoInst,
     result |-> NoInst, error |-> NONE, calls |-> 0]

\* the result of an operation around its external call
NoExtRet == [op |-> NONE, success |-> FALSE, error |-> NONE, raised |-> FALSE]

ExtIdle ==
    /\ xpc = [p \in Procs |-> "idle"]
    /\ xret = [p \in Procs |-> NoExtRet]

\* no text has been split, no response has been parsed
PureIdle ==
    /\ stext = [given |-> FALSE, text |-> <<>>]
    /\ schunks = <<>>
    /\ presp = [given |-> FALSE, agent |-> NONE, text |-> <<>>]
    /\ pout = [ok |-> FALSE, strategy |-> NONE, key |-> NONE]

RegInit ==
    /\ ExtIdle
    /\ PureIdle
    /\ imported = 0
    /\ rpc = [p \in Procs |-> "idle"]
    /\ rloc = [p \in Procs |-> NoRegLoc]
    /\ agents = <<>>
    /\ instances = [k \in Keys |-> NoInst]
    /\ ninst = 0
    /\ served = NotServed
    /\ rret = NoRegRet

Init == StoreInit /\ ConcIdle /\ GenIdle /\ RegInit

\* the file write of add_document that fails (disk full, ...), if any
AddFaults == {"none", "index", "meta"}

\* AddDocument appending the new chunks to the stored chunk list
AddDocument_Append(d, text, key) ==
    LET chunks == split_text(text)
        b == nbuilds + 1
    IN  /\ key
        /\ chunks # <<>>
        /\ nbuilds < MaxBuilds
        /\ nbuilds' = b
        /\ built' = built \cup {d}
        /\ \E vectors \in Embeddings(chunks) \ {<<>>} :
              index' = [index EXCEPT ![d] = IndexFile(index[d].vectors \o vectors, b)]
        /\ meta' = [meta EXCEPT ![d] = MetaFile(meta[d].chunks \o chunks, b)]
        /\ ret' = AddOk(d, text, key, meta[d].chunks, chunks)

\* AddDocument removing the bundle of the id when it rejects its input
AddDocument_ClearOnReject(d, text, key) ==
    LET chunks == split_text(text)
        b == nbuilds + 1
    IN  IF ~key \/ chunks = <<>>
        THEN /\ index' = [index EXCEPT ![d] = NoIndex]
             /\ meta' = [meta EXCEPT ![d] = NoMeta]
             /\ UNCHANGED <<nbuilds, built>>
             /\ ret' = AddFail(d, text, key, meta[d].chunks,
                               IF ~key THEN "not_configured" ELSE "no_chunks")
        ELSE /\ nbuilds < MaxBuilds
             /\ nbuilds' = b
             /\ built' = built \cup {d}
             /\ \E vectors \in Embeddings(chunks) \ {<<>>} :
                   index' = [index EXCEPT ![d] = IndexFile(vectors, b)]
             /\ meta' = [meta EXCEPT ![d] = MetaFile(chunks, b)]
             /\ ret' = AddOk(d, text, key, meta[d].chunks, chunks)

AddDocument(d, text, key) ==
    LET chunks == split_text(text)
        b == nbuilds + 1
    IN  IF ~key
        THEN /\ ret' = AddFail(d, text, key, meta[d].chunks, "not_configured")
             /\ UNCHANGED storeVars
        ELSE IF chunks = <<>>
        THEN /\ ret' = AddFail(d, text, key, meta[d].chunks, "no_chunks")
             /\ UNCHANGED storeVars
        ELSE \E vectors \in Embeddings(chunks) :
             IF vectors = <<>>
             THEN \* embed_documents raised
                  /\ ret' = AddFail(d, text, key, meta[d].chunks, "exception")
                  /\ UNCHANGED storeVars
             ELSE /\ nbuilds < MaxBuilds
                  /\ nbuilds' = b
                  /\ \E fault \in AddFaults :
                       IF fault = "index"
                       THEN \* faiss.write_index raised
                            /\ ret' = AddFail(d, text, key, meta[d].chunks, "exception")
                            /\ UNCHANGED <<index, meta, built>>
                       ELSE /\ index' = [index EXCEPT ![d] = IndexFile(vectors, b)]
                            /\ built' = built \cup {d}
                            /\ IF fault = "meta"
                               THEN \* open / json.dump raised
                                    /\ ret' = AddFail(d, text, key, meta[d].chunks, "exception")
                                    /\ UNCHANGED meta
                               ELSE /\ meta' = [meta EXCEPT ![d] = MetaFile(chunks, b)]
                                    /\ ret' = AddOk(d, text, key, meta[d].chunks, chunks)

\* what embed_query may answer in a call that gets as far as asking it
\* (`asked`), <<>> standing for "not asked" otherwise
QueryAnswers(asked) == IF asked THEN QueryEmbeddings ELSE {<<>>}

Search(d, query, top_k, key) ==
    /\ \E qemb \in QueryAnswers(key /\ index[d].exists /\ meta[d].exists) :
          ret' = SearchResult(d, query, top_k, key, index[d], meta[d], qemb)
    /\ UNCHANGED storeVars

GetAllChunks(d) ==
    /\ ret' = GetAllChunksResult(d, meta[d])
    /\ UNCHANGED storeVars

GetContextForGeneration(d, query, max_chunks, key) ==
    /\ \E qemb \in QueryAnswers(query # "" /\ key /\ index[d].exists /\ meta[d].exists) :
          ret' = GetContextResult(d, query, max_chunks, key, index[d], meta[d], qemb)
    /\ UNCHANGED storeVars

\* DeleteDocument that unlinks the index file only
DeleteDocument_IndexOnly(d) ==
    /\ index' = [index EXCEPT ![d] = NoIndex]
    /\ ret' = [NoRet EXCEPT !.op = "delete_document", !.doc = d, !.value = TRUE]
    /\ UNCHANGED <<meta, nbuilds, built>>

DeleteDocument(d) ==
    /\ index' = [index EXCEPT ![d] = NoIndex]
    /\ meta' = [meta EXCEPT ![d] = NoMeta]
    /\ ret' = [NoRet EXCEPT !.op = "delete_document", !.doc = d, !.value = TRUE]
    /\ UNCHANGED <<nbuilds, built>>

DocumentExists(d) ==
    /\ ret' = DocumentExistsResult(d, index[d])
    /\ UNCHANGED storeVars

otherVars == <<concVars, genVars, regVars>>

DoAddDocument ==
    /\ \E d \in DocIds, text \in Texts, key \in BOOLEAN :
          AddDocument(d, text, key)
    /\ UNCHANGED otherVars

DoSearch ==
    /\ \E d \in DocIds, query \in Queries, top_k \in TopKs, key \in BOOLEAN :
          Search(d, query, top_k, key)
    /\ UNCHANGED otherVars

DoGetAllChunks == (\E d \in DocIds : GetAllChunks(d)) /\ UNCHANGED otherVars

DoGetContext ==
    /\ \E d \in DocIds, query \in Queries, max_chunks \in TopKs, key \in BOOLEAN :
          GetContextForGeneration(d, query, max_chunks, key)
    /\ UNCHANGED otherVars

DoDeleteDocument == (\E d \in DocIds : DeleteDocument(d)) /\ UNCHANGED otherVars

DoDocumentExists == (\E d \in DocIds : DocumentExists(d)) /\ UNCHANGED otherVars

Next ==
    \/ DoAddDocument
    \/ DoDeleteDocument
    \/ DoSearch
    \/ DoDocumentExists

Spec == Init /\ [][Next]_vars

(***************************************************************************)
(* SpecCtx: the store with the context-assembly operations.                *)
(***************************************************************************)
NextCtx ==
    \/ DoAddDocument
    \/ DoDeleteDocument
    \/ DoGetAllChunks
    \/ DoGetContext

SpecCtx == Init /\ [][NextCtx]_vars


(***************************************************************************)
(* SpecConc: request threads calling a configured service concurrently.    *)
(* A call is cut at its file-system operations: every exists() test, file  *)
(* read, file write and unlink of one call may be separated from the next  *)
(* by steps of the other threads.  The file writes succeed here.           *)
(***************************************************************************)
Return(p, r) ==
    /\ ret' = r
    /\ pc' = [pc EXCEPT ![p] = "idle"]
    /\ loc' = [loc EXCEPT ![p] = NoLoc]

\* add_document, lines 91-116: split, embed, build the index in memory
AddBegin(p, d, text) ==
    LET chunks == split_text(text)
    IN  /\ pc[p] = "idle"
        /\ IF chunks = <<>>
           THEN /\ Return(p, AddFail(d, text, TRUE, meta[d].chunks, "no_chunks"))
                /\ UNCHANGED storeVars
           ELSE \E vectors \in Embeddings(chunks) :
                IF vectors = <<>>
                THEN /\ Return(p, AddFail(d, text, TRUE, meta[d].chunks, "exception"))
                     /\ UNCHANGED storeVars
                ELSE /\ nbuilds < MaxBuilds
                     /\ nbuilds' = nbuilds + 1
                     /\ pc' = [pc EXCEPT ![p] = "write_index"]
                     /\ loc' = [loc EXCEPT ![p] =
                                  [NoLoc EXCEPT !.doc = d, !.text = text,
                                                !.chunks = chunks, !.vectors = vectors,
                                                !.build = nbuilds + 1]]
                     /\ UNCHANGED <<index, meta, built, ret>>

\* add_document, lines 118-120: faiss.write_index
AddWriteIndex(p) ==
    /\ pc[p] = "write_index"
    /\ index' = [index EXCEPT ![loc[p].doc] = IndexFile(loc[p].vectors, loc[p].build)]
    /\ built' = built \cup {loc[p].doc}
    /\ pc' = [pc EXCEPT ![p] = "write_meta"]
    /\ UNCHANGED <<meta, nbuilds, ret, loc>>

\* add_document, lines 122-135: write the metadata, return success
AddWriteMeta(p) ==
    LET d == loc[p].doc
    IN  /\ pc[p] = "write_meta"
        /\ meta' = [meta EXCEPT ![d] = MetaFile(loc[p].chunks, loc[p].build)]
        /\ Return(p, AddOk(d, loc[p].text, TRUE, meta[d].chunks, loc[p].chunks))
        /\ UNCHANGED <<index, nbuilds, built>>

\* search, lines 170-179: the two exists() tests
SearchBegin(p, d, query, top_k) ==
    /\ pc[p] = "idle"
    /\ IF ~index[d].exists \/ ~meta[d].exists
       THEN Return(p, SearchFail(d, query, top_k, TRUE, "index_not_found"))
       ELSE /\ pc' = [pc EXCEPT ![p] = "read_index"]
            /\ loc' = [loc EXCEPT ![p] =
                         [NoLoc EXCEPT !.doc = d, !.query = query, !.top_k = top_k]]
            /\ UNCHANGED ret
    /\ UNCHANGED storeVars

\* search, line 182: faiss.read_index (raises when the file is gone)
SearchReadIndex(p) ==
    /\ pc[p] = "read_index"
    /\ IF ~index[loc[p].doc].exists
       THEN Return(p, SearchFail(loc[p].doc, loc[p].query, loc[p].top_k, TRUE, "exception"))
       ELSE /\ pc' = [pc EXCEPT ![p] = "read_meta"]
            /\ loc' = [loc EXCEPT ![p].idx = index[loc[p].doc]]
            /\ UNCHANGED ret
    /\ UNCHANGED storeVars

\* search, lines 183-205: load the metadata, embed the query, search
SearchReadMeta(p) ==
    LET d == loc[p].doc
    IN  /\ pc[p] = "read_meta"
        /\ IF ~meta[d].exists
           THEN Return(p, SearchFail(d, loc[p].query, loc[p].top_k, TRUE, "exception"))
           ELSE \E qemb \in QueryEmbeddings :
                  Return(p, SearchLoaded(d, loc[p].query, loc[p].top_k, TRUE,
                                         loc[p].idx, meta[d], qemb))
        /\ UNCHANGED storeVars

\* delete_document, lines 294-298: unlink the index file if it exists
DeleteBegin(p, d) ==
    /\ pc[p] = "idle"
    /\ index' = [index EXCEPT ![d] = NoIndex]
    /\ pc' = [pc EXCEPT ![p] = "unlink_meta"]
    /\ loc' = [loc EXCEPT ![p] = [NoLoc EXCEPT !.doc = d]]
    /\ UNCHANGED <<meta, nbuilds, built, ret>>

\* delete_document, lines 299-302: unlink the metadata file if it exists
DeleteUnlinkMeta(p) ==
    /\ pc[p] = "unlink_meta"
    /\ meta' = [meta EXCEPT ![loc[p].doc] = NoMeta]
    /\ Return(p, [NoRet EXCEPT !.op = "delete_document", !.doc = loc[p].doc,
                               !.value = TRUE])
    /\ UNCHANGED <<index, nbuilds, built>>

\* the threads work on one and the same document id
ConcDocs == {"d1"}

ConcAddBegin ==
    /\ \E p \in Procs, d \in ConcDocs, text \in Texts : AddBegin(p, d, text)
    /\ UNCHANGED <<genVars, regVars>>

ConcAddWriteIndex == (\E p \in Procs : AddWriteIndex(p)) /\ UNCHANGED <<genVars, regVars>>

ConcAddWriteMeta == (\E p \in Procs : AddWriteMeta(p)) /\ UNCHANGED <<genVars, regVars>>

ConcSearchBegin ==
    /\ \E p \in Procs, d \in ConcDocs, top_k \in TopKs : SearchBegin(p, d, "q", top_k)
    /\ UNCHANGED <<genVars, regVars>>

ConcSearchReadIndex == (\E p \in Procs : SearchReadIndex(p)) /\ UNCHANGED <<genVars, regVars>>

ConcSearchReadMeta == (\E p \in Procs : SearchReadMeta(p)) /\ UNCHANGED <<genVars, regVars>>

ConcDeleteBegin ==
    /\ \E p \in Procs, d \in ConcDocs : DeleteBegin(p, d)
    /\ UNCHANGED <<genVars, regVars>>

ConcDeleteUnlinkMeta == (\E p \in Procs : DeleteUnlinkMeta(p)) /\ UNCHANGED <<genVars, regVars>>

NextConc ==
    \/ ConcAddBegin
    \/ ConcAddWriteIndex
    \/ ConcAddWriteMeta
    \/ ConcSearchBegin
    \/ ConcSearchReadIndex
    \/ ConcSearchReadMeta
    \/ ConcDeleteBegin
    \/ ConcDeleteUnlinkMeta

SpecConc == Init /\ [][NextConc]_vars

(***************************************************************************)
(* SpecGen: the validators of the quiz, flashcard and flowchart agents.    *)
(*                                                                         *)
(* Strings are sequences of characters.  A JSON scalar is a record         *)
(*   t : "str" | "int" | "float" | "null" | "absent" (the key is not in    *)
(*       the object)                                                       *)
(*   v : the characters of a string, or the decimal digits of a number     *)
(*   n : the value of an integer; for a "float", which stands for the      *)
(*       fraction n + 0.5, its integer part                                *)
(***************************************************************************)
Absent == [t |-> "absent", v |-> <<>>, n |-> 0]
JNull == [t |-> "null", v |-> <<>>, n |-> 0]
JStr(s) == [t |-> "str", v |-> s, n |-> 0]
JInt(n, digits) == [t |-> "int", v |-> digits, n |-> n]
\* the JSON number n.5
JHalf(n, digits) == [t |-> "float", v |-> digits, n |-> n]

Whitespace == {" ", "\t", "\n"}

UpperCase ==
    [c \in {"a", "b", "c", "d", "e"} |->
        CASE c = "a" -> "A" [] c = "b" -> "B" [] c = "c" -> "C"
          [] c = "d" -> "D" [] c = "e" -> "E"]

LowerCase ==
    [c \in {"S", "E", "C", "A", "D"} |->
        CASE c = "S" -> "s" [] c = "E" -> "e" [] c = "C" -> "c"
          [] c = "A" -> "a" [] c = "D" -> "d"]

\* str.upper(), str.lower(), str.strip()
Upper(s) == [i \in 1..Len(s) |-> IF s[i] \in DOMAIN UpperCase THEN UpperCase[s[i]] ELSE s[i]]
Lower(s) == [i \in 1..Len(s) |-> IF s[i] \in DOMAIN LowerCase THEN LowerCase[s[i]] ELSE s[i]]

RECURSIVE LStrip(_)
LStrip(s) == IF s # <<>> /\ Head(s) \in Whitespace THEN LStrip(Tail(s)) ELSE s

RECURSIVE RStrip(_)
RStrip(s) ==
    IF s # <<>> /\ s[Len(s)] \in Whitespace
    THEN RStrip(SubSeq(s, 1, Len(s) - 1))
    ELSE s

Strip(s) == RStrip(LStrip(s))

\* str(x) of a JSON scalar
PyStr(x) == IF x.t = "null" THEN <<"N", "o", "n", "e">> ELSE x.v

\* int(s) of a string: the digits, surrounding whitespace dropped
DigitValue ==
    [c \in {"0", "1", "2", "3", "4", "5", "6", "7", "8", "9"} |->
        CASE c = "0" -> 0 [] c = "1" -> 1 [] c = "2" -> 2 [] c = "3" -> 3
          [] c = "4" -> 4 [] c = "5" -> 5 [] c = "6" -> 6 [] c = "7" -> 7
          [] c = "8" -> 8 [] c = "9" -> 9]

IsInt(s) ==
    LET u == Strip(s)
        body == IF u # <<>> /\ Head(u) \in {"-", "+"} THEN Tail(u) ELSE u
    IN  body # <<>> /\ \A i \in 1..Len(body) : body[i] \in DOMAIN DigitValue

RECURSIVE DigitsValue(_)
DigitsValue(s) ==
    IF s = <<>> THEN 0 ELSE 10 * DigitsValue(SubSeq(s, 1, Len(s) - 1)) + DigitValue[s[Len(s)]]

PyInt(s) ==
    LET u == Strip(s)
    IN  IF Head(u) = "-" THEN 0 - DigitsValue(Tail(u))
        ELSE IF Head(u) = "+" THEN DigitsValue(Tail(u))
        ELSE DigitsValue(u)

\* what a validator hands back: it raised an exception its own handlers do
\* not catch, or the validated list
Raised == [raised |-> TRUE, items |-> <<>>]
Validated(items) == [raised |-> FALSE, items |-> items]

GenFail(agent, err) ==
    [NoGenOut EXCEPT !.agent = agent, !.error = err, !.has_items = TRUE]
GenOk(agent, items) ==
    [NoGenOut EXCEPT !.agent = agent, !.success = TRUE, !.has_items = TRUE,
                     !.items = items, !.count = Len(items)]

\* a response that parsed to an object holding the list under its key
ParsedIn(agent, items, overall) ==
    [NoGenIn EXCEPT !.agent = agent, !.top = "dict", !.truthy = TRUE,
                    !.holds = TRUE, !.items = items, !.overall = overall]

(***************************************************************************)
(* QuizAgent.  An element of the "questions" list is a record              *)
(*   kind  : "dict", or "int" / "null" / "str" / "list" for an element     *)
(*           that is no object                                             *)
(*   holds : for a string or list element, whether it contains every       *)
(*           required key (as a substring / as an element)                 *)
(*   question .. explanation : the values of the object's keys             *)
(***************************************************************************)
QuizRequired ==
    {"question", "option_a", "option_b", "option_c", "option_d", "correct_answer"}

valid_answers == { <<"A">>, <<"B">>, <<"C">>, <<"D">> }

\* one pass of a validator's for loop: the element is skipped (continue, or
\* an exception the loop catches), an exception the loop does not catch is
\* raised, or the cleaned element is kept
Skip == [res |-> "skip", item |-> <<>>]
Raise == [res |-> "raise", item |-> <<>>]
Keep(item) == [res |-> "keep", item |-> item]

\* QuizItem comparing correct_answer as given, neither upper-cased nor trimmed
QuizItem_AsGiven(q, i) ==
    IF q.kind # "dict" \/ (\E k \in QuizRequired : q[k].t = "absent")
    THEN Skip
    ELSE IF q.correct_answer.t # "str"
    THEN Raise
    ELSE IF q.correct_answer.v \notin valid_answers
    THEN Skip
    ELSE Keep([question |-> Strip(PyStr(q.question)),
               option_a |-> Strip(PyStr(q.option_a)),
               option_b |-> Strip(PyStr(q.option_b)),
               option_c |-> Strip(PyStr(q.option_c)),
               option_d |-> Strip(PyStr(q.option_d)),
               correct_answer |-> q.correct_answer.v,
               explanation |-> IF q.explanation.t = "absent" THEN <<>>
                               ELSE Strip(PyStr(q.explanation)),
               order |-> i])

\* the body of the for loop of _validate_questions on element q at index i
QuizItem(q, i) ==
    IF q.kind \in {"int", "null"}
    THEN Skip              \* `key in q` raises TypeError
    ELSE IF q.kind \in {"str", "list"}
    THEN Skip              \* a key is not contained, or q['correct_answer']
                           \* raises TypeError
    ELSE IF \E k \in QuizRequired : q[k].t = "absent"
    THEN Skip
    ELSE IF q.correct_answer.t # "str"
    THEN Raise             \* AttributeError: no attribute 'upper'
    ELSE LET correct == Strip(Upper(q.correct_answer.v))
         IN  IF correct \notin valid_answers
             THEN Skip
             ELSE Keep([question |-> Strip(PyStr(q.question)),
                        option_a |-> Strip(PyStr(q.option_a)),
                        option_b |-> Strip(PyStr(q.option_b)),
                        option_c |-> Strip(PyStr(q.option_c)),
                        option_d |-> Strip(PyStr(q.option_d)),
                        correct_answer |-> correct,
                        explanation |-> IF q.explanation.t = "absent" THEN <<>>
                                        ELSE Strip(PyStr(q.explanation)),
                        order |-> i])

RECURSIVE ValidateQuestionsFrom(_, _, _)
ValidateQuestionsFrom(questions, i, validated) ==
    IF i >= Len(questions) THEN Validated(validated)
    ELSE LET r == QuizItem(questions[i + 1], i)
         IN  IF r.res = "raise" THEN Raised
             ELSE IF r.res = "skip"
             THEN ValidateQuestionsFrom(questions, i + 1, validated)
             ELSE ValidateQuestionsFrom(questions, i + 1, Append(validated, r.item))

validate_questions(questions) == ValidateQuestionsFrom(questions, 0, <<>>)

\* QuizAgent.generate from the parsed response {"questions": questions} on
QuizGenerate(questions) ==
    LET v == validate_questions(questions)
    IN  IF v.raised THEN GenFail("quiz", "exception")
        ELSE IF v.items = <<>> THEN GenFail("quiz", "no_valid_items")
        ELSE GenOk("quiz", v.items)

(***************************************************************************)
(* FlashcardAgent.  An element of the "flashcards" list is a record with   *)
(* kind and holds as for the quiz, and the values of front, back, priority.*)
(***************************************************************************)
\* min(5, x) and max(1, x) on a number x = [n, half], half telling whether
\* x is the fraction n + 0.5; the bound is returned as the integer it is
MinFive(x) == IF x.n < 5 THEN x ELSE [n |-> 5, half |-> FALSE]
MaxOne(x) == IF x.n > 1 \/ (x.n = 1 /\ x.half) THEN x ELSE [n |-> 1, half |-> FALSE]

\* the body of the for loop of _validate_flashcards on element card at index i
\* (priorities are JSON integers, fractions n.5, strings, null or missing;
\* the kept card records its priority as the integer part `priority` and
\* `half`, TRUE when the value is priority + 0.5)
FlashcardItem(card, i) ==
    IF card.kind \in {"int", "null"}
    THEN Skip              \* `key in card` raises TypeError
    ELSE IF card.kind \in {"str", "list"}
    THEN IF card.holds
         THEN Raise        \* AttributeError: no attribute 'get'
         ELSE Skip
    ELSE IF card.front.t = "absent" \/ card.back.t = "absent"
    THEN Skip
    ELSE LET given == IF card.priority.t = "absent" THEN JInt(3, <<"3">>)
                      ELSE card.priority
             priority == IF given.t = "str"
                         THEN IF IsInt(given.v)
                              THEN JInt(PyInt(given.v), Strip(given.v))
                              ELSE JInt(3, <<"3">>)
                         ELSE given
             front == Strip(PyStr(card.front))
             back == Strip(PyStr(card.back))
         IN  IF priority.t \notin {"int", "float"}
             THEN Skip     \* min(5, priority) raises TypeError
             ELSE IF front = <<>> \/ back = <<>>
             THEN Skip
             ELSE LET clamped == MaxOne(MinFive([n |-> priority.n,
                                                 half |-> priority.t = "float"]))
                  IN  Keep([front |-> front, back |-> back,
                            priority |-> clamped.n, half |-> clamped.half,
                            order |-> i])

RECURSIVE ValidateFlashcardsFrom(_, _, _)
ValidateFlashcardsFrom(flashcards, i, validated) ==
    IF i >= Len(flashcards) THEN Validated(validated)
    ELSE LET r == FlashcardItem(flashcards[i + 1], i)
         IN  IF r.res = "raise" THEN Raised
             ELSE IF r.res = "skip"
             THEN ValidateFlashcardsFrom(flashcards, i + 1, validated)
             ELSE ValidateFlashcardsFrom(flashcards, i + 1, Append(validated, r.item))

\* validated.sort(key=lambda x: (x['priority'], x['order']))
\* CardBefore comparing the positions only
CardBefore_ByOrder(x, y) == x.order < y.order

CardBefore(x, y) ==
    \/ x.priority < y.priority
    \/ x.priority = y.priority /\ ~x.half /\ y.half
    \/ x.priority = y.priority /\ x.half = y.half /\ x.order < y.order

RECURSIVE SortCards(_)
SortCards(cards) ==
    IF cards = <<>> THEN <<>>
    ELSE LET m == CHOOSE k \in 1..Len(cards) :
                      \A l \in 1..Len(cards) : l = k \/ CardBefore(cards[k], cards[l])
         IN  <<cards[m]>> \o
             SortCards(SubSeq(cards, 1, m - 1) \o SubSeq(cards, m + 1, Len(cards)))

validate_flashcards(flashcards) ==
    LET v == ValidateFlashcardsFrom(flashcards, 0, <<>>)
        sorted == SortCards(v.items)
    IN  IF v.raised THEN Raised
        ELSE Validated([k \in 1..Len(sorted) |-> [sorted[k] EXCEPT !.order = k - 1]])

\* FlashcardAgent.generate from the parsed response {"flashcards": ...} on
FlashcardGenerate(flashcards) ==
    LET v == validate_flashcards(flashcards)
    IN  IF v.raised THEN GenFail("flashcard", "exception")
        ELSE IF v.items = <<>> THEN GenFail("flashcard", "no_valid_items")
        ELSE GenOk("flashcard", v.items)

(***************************************************************************)
(* FlowchartAgent.  An element of the "flowcharts" list is a record        *)
(*   kind  : "dict", or "int" for an element that is no object             *)
(*   title, description : scalars                                          *)
(*   nodes : a list of records (kind, id, label, type)                     *)
(*   edges : a list of records (kind, from, to, label)                     *)
(***************************************************************************)
valid_types ==
    { <<"s", "t", "a", "r", "t">>, <<"e", "n", "d">>,
      <<"c", "o", "n", "c", "e", "p", "t">>, <<"a", "c", "t", "i", "o", "n">>,
      <<"d", "e", "c", "i", "s", "i", "o", "n">> }

Str_concept == <<"c", "o", "n", "c", "e", "p", "t">>
Str_ConceptFlowchart ==
    <<"C", "o", "n", "c", "e", "p", "t", " ", "F", "l", "o", "w", "c", "h", "a", "r", "t">>

\* x.get(key, default) followed by str()
GetStr(x, default) == IF x.t = "absent" THEN default ELSE PyStr(x)

\* the body of the node loop of _validate_flowchart
FlowchartNode(node) ==
    IF node.kind # "dict"
    THEN Raise             \* AttributeError: no attribute 'get'
    ELSE LET node_id == GetStr(node.id, <<>>)
             node_type == Lower(GetStr(node.type, Str_concept))
             label == Strip(GetStr(node.label, <<>>))
         IN  IF node_id = <<>> \/ label = <<>>
             THEN Skip
             ELSE Keep([id |-> node_id, label |-> label,
                        type |-> IF node_type \in valid_types THEN node_type
                                 ELSE Str_concept])

RECURSIVE ValidateNodes(_, _)
ValidateNodes(nodes, validated) ==
    IF nodes = <<>> THEN Validated(validated)
    ELSE LET r == FlowchartNode(Head(nodes))
         IN  IF r.res = "raise" THEN Raised
             ELSE IF r.res = "skip" THEN ValidateNodes(Tail(nodes), validated)
             ELSE ValidateNodes(Tail(nodes), Append(validated, r.item))

\* FlowchartEdge keeping every edge, whatever its endpoints
FlowchartEdge_KeepAll(edge, node_ids) ==
    IF edge.kind # "dict"
    THEN Raise
    ELSE Keep([from |-> GetStr(edge.from, <<>>), to |-> GetStr(edge.to, <<>>),
               label |-> Strip(GetStr(edge.label, <<>>))])

\* the body of the edge loop of _validate_flowchart
FlowchartEdge(edge, node_ids) ==
    IF edge.kind # "dict"
    THEN Raise             \* AttributeError: no attribute 'get'
    ELSE LET from_id == GetStr(edge.from, <<>>)
             to_id == GetStr(edge.to, <<>>)
             label == Strip(GetStr(edge.label, <<>>))
         IN  IF from_id \in node_ids /\ to_id \in node_ids
             THEN Keep([from |-> from_id, to |-> to_id, label |-> label])
             ELSE Skip

RECURSIVE ValidateEdges(_, _, _)
ValidateEdges(edges, node_ids, validated) ==
    IF edges = <<>> THEN Validated(validated)
    ELSE LET r == FlowchartEdge(Head(edges), node_ids)
         IN  IF r.res = "raise" THEN Raised
             ELSE IF r.res = "skip" THEN ValidateEdges(Tail(edges), node_ids, validated)
             ELSE ValidateEdges(Tail(edges), node_ids, Append(validated, r.item))

\* _validate_flowchart: Raised, or Validated(<<the cleaned flowchart>>)
validate_flowchart(data) ==
    IF data.kind # "dict"
    THEN Raised            \* AttributeError: no attribute 'get'
    ELSE LET vn == ValidateNodes(data.nodes, <<>>)
             node_ids == { vn.items[k].id : k \in 1..Len(vn.items) }
             ve == ValidateEdges(data.edges, node_ids, <<>>)
         IN  IF vn.raised \/ ve.raised THEN Raised
             ELSE Validated(<<[title |-> Strip(GetStr(data.title, Str_ConceptFlowchart)),
                               description |-> Strip(GetStr(data.description, <<>>)),
                               nodes |-> vn.items,
                               edges |-> ve.items,
                               node_count |-> Len(vn.items),
                               edge_count |-> Len(ve.items)]>>)

\* the loop of generate over response_data['flowcharts']
RECURSIVE ValidateFlowcharts(_, _)
ValidateFlowcharts(flowcharts, valid_flowcharts) ==
    IF flowcharts = <<>> THEN Validated(valid_flowcharts)
    ELSE LET v == validate_flowchart(Head(flowcharts))
         IN  IF v.raised THEN Raised
             ELSE IF v.items[1].nodes # <<>>
             THEN ValidateFlowcharts(Tail(flowcharts), Append(valid_flowcharts, v.items[1]))
             ELSE ValidateFlowcharts(Tail(flowcharts), valid_flowcharts)

\* FlowchartAgent.generate from the parsed response {"flowcharts": ...} on
FlowchartGenerate(flowcharts) ==
    LET v == ValidateFlowcharts(flowcharts, <<>>)
    IN  IF v.raised THEN GenFail("flowchart", "exception")
        ELSE IF v.items = <<>> THEN GenFail("flowchart", "no_valid_items")
        ELSE GenOk("flowchart", v.items)

(***************************************************************************)
(* EvaluationAgent.generate_sync, from the parsed response on.  An element *)
(* of the "questions" list is a record                                     *)
(*   kind : "dict", or "str" for an element that is no object              *)
(*   score_percentage : a scalar                                           *)
(* Numbers are JSON integers or strings of digits; float() of them is the  *)
(* integer they denote.                                                    *)
(***************************************************************************)
EvalFail(err) == [NoGenOut EXCEPT !.agent = "evaluation", !.error = err]
EvalOk(items, overall) ==
    [NoGenOut EXCEPT !.agent = "evaluation", !.success = TRUE, !.has_items = TRUE,
                     !.items = items, !.overall = overall]

\* float(x) is defined: x is a number or a numeric string
FloatOk(x) == x.t = "int" \/ (x.t = "str" /\ IsInt(x.v))
PyFloat(x) == IF x.t = "int" THEN x.n ELSE PyInt(x.v)

\* max(0, min(100, x))
ClampScore(x) == Max(0, Min(100, x))

\* EvalQuestion leaving the score as given
EvalQuestion_NoClamp(q, i) ==
    IF q.kind # "dict"
    THEN Raise
    ELSE LET given == IF q.score_percentage.t = "absent" THEN JInt(0, <<"0">>)
                      ELSE q.score_percentage
         IN  IF ~FloatOk(given)
             THEN Raise
             ELSE Keep([order |-> i + 1, score_percentage |-> PyFloat(given)])

\* the body of the for loop of generate_sync on element q at index i
EvalQuestion(q, i) ==
    IF q.kind # "dict"
    THEN Raise             \* q['order'] = ... raises TypeError
    ELSE LET given == IF q.score_percentage.t = "absent" THEN JInt(0, <<"0">>)
                      ELSE q.score_percentage
         IN  IF ~FloatOk(given)
             THEN Raise    \* float() raises TypeError / ValueError
             ELSE Keep([order |-> i + 1,
                        score_percentage |-> ClampScore(PyFloat(given))])

RECURSIVE EvalQuestionsFrom(_, _, _)
EvalQuestionsFrom(questions, i, done) ==
    IF i >= Len(questions) THEN Validated(done)
    ELSE LET r == EvalQuestion(questions[i + 1], i)
         IN  IF r.res = "raise" THEN Raised
             ELSE EvalQuestionsFrom(questions, i + 1, Append(done, r.item))

RECURSIVE SumScores(_)
SumScores(items) ==
    IF items = <<>> THEN 0 ELSE Head(items).score_percentage + SumScores(Tail(items))

\* generate_sync from `questions = result.get('questions', [])` on
EvaluationGenerate(questions, overall_score) ==
    IF questions = <<>>
    THEN EvalFail("no_questions")
    ELSE LET v == EvalQuestionsFrom(questions, 0, <<>>)
         IN  IF v.raised THEN EvalFail("exception")
             ELSE IF overall_score.t \in {"absent", "null"}
             THEN EvalOk(v.items, [num |-> SumScores(v.items), den |-> Len(v.items)])
             ELSE IF ~FloatOk(overall_score)
             THEN EvalFail("exception")
             ELSE EvalOk(v.items, [num |-> ClampScore(PyFloat(overall_score)), den |-> 1])

(***************************************************************************)
(* The parsed responses the validators are run on.                         *)
(***************************************************************************)
\* all sequences over S of length 0..n
RECURSIVE SeqsUpTo(_, _)
SeqsUpTo(S, n) ==
    IF n = 0 THEN {<<>>}
    ELSE LET shorter == SeqsUpTo(S, n - 1)
         IN  shorter \cup { Append(q, x) : q \in shorter, x \in S }

Opt == JStr(<<"o">>)

QDict(question, option_d, correct_answer, explanation) ==
    [kind |-> "dict", holds |-> FALSE, question |-> question,
     option_a |-> Opt, option_b |-> Opt, option_c |-> Opt, option_d |-> option_d,
     correct_answer |-> correct_answer, explanation |-> explanation]

QOther(kind, holds) ==
    [kind |-> kind, holds |-> holds, question |-> Absent,
     option_a |-> Absent, option_b |-> Absent, option_c |-> Absent,
     option_d |-> Absent, correct_answer |-> Absent, explanation |-> Absent]

QuizElements ==
    { QDict(JStr(<<"q", "1">>), Opt, JStr(<<"A">>), Absent),
      QDict(JStr(<<" ", "q", "2">>), Opt, JStr(<<" ", "b", " ">>), JStr(<<"x">>)),
      QDict(JStr(<<"q", "3">>), Opt, JStr(<<"e">>), Absent),
      QDict(JStr(<<"q", "4">>), Opt, JInt(1, <<"1">>), Absent),
      QDict(JStr(<<"q", "5">>), Opt, JNull, Absent),
      QDict(JStr(<<"q", "6">>), Absent, JStr(<<"C">>), Absent),
      QOther("int", FALSE),
      QOther("str", TRUE) }

FDict(front, back, priority) ==
    [kind |-> "dict", holds |-> FALSE, front |-> front, back |-> back,
     priority |-> priority]

FOther(kind, holds) ==
    [kind |-> kind, holds |-> holds, front |-> Absent, back |-> Absent,
     priority |-> Absent]

FlashcardElements ==
    { FDict(JStr(<<"f", "1">>), JStr(<<"b", "1">>), Absent),
      FDict(JStr(<<"f", "2">>), JStr(<<"b", "2">>), JInt(5, <<"5">>)),
      FDict(JStr(<<"f", "3">>), JStr(<<" ", "b", "3">>), JInt(1, <<"1">>)),
      FDict(JStr(<<"f", "4">>), JStr(<<"b", "4">>), JStr(<<" ", "7">>)),
      FDict(JStr(<<"f", "5">>), JStr(<<"b", "5">>), JStr(<<"x">>)),
      FDict(JStr(<<"f", "6">>), JStr(<<"b", "6">>), JNull),
      FDict(JStr(<<"f", "9">>), JStr(<<"b", "9">>), JHalf(2, <<"2", ".", "5">>)),
      FDict(JStr(<<"f", "0">>), JStr(<<"b", "0">>), JInt(0, <<"0">>)),
      FDict(JStr(<<" ">>), JStr(<<"b", "7">>), Absent),
      FDict(JStr(<<"f", "8">>), Absent, Absent),
      FOther("null", FALSE),
      FOther("list", FALSE),
      FOther("str", TRUE) }

NDict(id, label, type) == [kind |-> "dict", id |-> id, label |-> label, type |-> type]
NOther == [kind |-> "int", id |-> Absent, label |-> Absent, type |-> Absent]
EDict(from, to) == [kind |-> "dict", from |-> from, to |-> to, label |-> Absent]
EOther == [kind |-> "str", from |-> Absent, to |-> Absent, label |-> Absent]

Node1 == NDict(JStr(<<"1">>), JStr(<<"a", " ">>), JStr(<<"S", "t", "a", "r", "t">>))
Node2 == NDict(JInt(2, <<"2">>), JStr(<<"b">>), Absent)
NodeNoLabel == NDict(JStr(<<"3">>), Absent, JStr(<<"e", "n", "d">>))
NodeNullLabel == NDict(JStr(<<"4">>), JNull, Absent)
Edge12 == EDict(JStr(<<"1">>), JInt(2, <<"2">>))
Edge92 == EDict(JStr(<<"9">>), JStr(<<"2">>))

GDict(nodes, edges) ==
    [kind |-> "dict", title |-> Absent, description |-> Absent,
     nodes |-> nodes, edges |-> edges]
GOther ==
    [kind |-> "int", title |-> Absent, description |-> Absent,
     nodes |-> <<>>, edges |-> <<>>]

FlowchartElements ==
    { GDict(<<Node1, Node2>>, <<Edge12>>),
      GDict(<<Node1, Node2>>, <<Edge92, Edge12>>),
      GDict(<<Node2, NodeNoLabel>>, <<Edge12>>),
      GDict(<<NodeNoLabel>>, <<>>),
      GDict(<<>>, <<>>),
      GDict(<<NodeNullLabel>>, <<>>),
      GDict(<<Node1, NOther>>, <<>>),
      GDict(<<Node1, Node2>>, <<EOther>>),
      GOther }

\* an agent keeps no state from one generate call to the next: a behaviour
\* is one call on one parsed response
VDict(score_percentage) == [kind |-> "dict", score_percentage |-> score_percentage]
VOther == [kind |-> "str", score_percentage |-> Absent]

EvaluationElements ==
    { VDict(JInt(100, <<"1", "0", "0">>)),
      VDict(JInt(50, <<"5", "0">>)),
      VDict(JInt(0, <<"0">>)),
      VDict(JInt(150, <<"1", "5", "0">>)),
      VDict(JInt(-20, <<"-", "2", "0">>)),
      VDict(JStr(<<"7", "0">>)),
      VDict(Absent),
      VDict(JNull),
      VOther }

OverallScores ==
    { Absent, JNull, JInt(70, <<"7", "0">>), JInt(150, <<"1", "5", "0">>), JStr(<<"x">>) }

GenQuiz ==
    /\ gin = NoGenIn
    /\ \E questions \in SeqsUpTo(QuizElements, MaxItems) :
          /\ gin' = ParsedIn("quiz", questions, Absent)
          /\ gout' = QuizGenerate(questions)
    /\ UNCHANGED <<storeVars, ret, concVars, regVars>>

GenFlashcard ==
    /\ gin = NoGenIn
    /\ \E flashcards \in SeqsUpTo(FlashcardElements, MaxItems) :
          /\ gin' = ParsedIn("flashcard", flashcards, Absent)
          /\ gout' = FlashcardGenerate(flashcards)
    /\ UNCHANGED <<storeVars, ret, concVars, regVars>>

GenFlowchart ==
    /\ gin = NoGenIn
    /\ \E flowcharts \in SeqsUpTo(FlowchartElements, MaxItems) :
          /\ gin' = ParsedIn("flowchart", flowcharts, Absent)
          /\ gout' = FlowchartGenerate(flowcharts)
    /\ UNCHANGED <<storeVars, ret, concVars, regVars>>

GenEvaluation ==
    /\ gin = NoGenIn
    /\ \E questions \in SeqsUpTo(EvaluationElements, MaxItems),
          overall_score \in OverallScores :
          /\ gin' = ParsedIn("evaluation", questions, overall_score)
          /\ gout' = EvaluationGenerate(questions, overall_score)
    /\ UNCHANGED <<storeVars, ret, concVars, regVars>>

NextGen ==
    \/ GenQuiz
    \/ GenFlashcard
    \/ GenFlowchart
    \/ GenEvaluation

SpecGen == Init /\ [][NextGen]_vars

(***************************************************************************)
(* SpecResp: generate of the four agents, from the answer of the           *)
(* generative model on.                                                    *)
(***************************************************************************)
\* QuizAgent.generate / FlashcardAgent.generate, lines of the try block:
\* generation call, parse, key test, validation
ListRespond(agent, r, generated) ==
    IF r.call = "fails" THEN GenFail(agent, "exception")
    ELSE IF ~r.truthy THEN GenFail(agent, "parse_failure")   \* `not data`
    ELSE IF r.top = "int" THEN GenFail(agent, "exception")   \* `in` raises TypeError
    ELSE IF ~r.holds THEN GenFail(agent, "parse_failure")
    ELSE IF r.top # "dict" THEN GenFail(agent, "exception")  \* data[key] raises TypeError
    ELSE generated

QuizRespond(r) == ListRespond("quiz", r, QuizGenerate(r.items))
FlashcardRespond(r) == ListRespond("flashcard", r, FlashcardGenerate(r.items))

\* FlowchartAgent.generate: a response without 'flowcharts' and with 'nodes'
\* is taken as one flowchart
FlowchartRespond(r) ==
    IF r.call = "fails" THEN GenFail("flowchart", "exception")
    ELSE IF ~r.truthy THEN GenFail("flowchart", "parse_failure")
    ELSE IF r.top = "int" THEN GenFail("flowchart", "exception")
    ELSE IF ~r.holds /\ ~r.nodes THEN GenFail("flowchart", "invalid_structure")
    ELSE IF r.holds /\ r.top # "dict" THEN GenFail("flowchart", "exception")
    ELSE FlowchartGenerate(r.items)

\* EvaluationAgent.generate_sync: its failure dictionaries have the keys
\* 'success' and 'error' only
EvaluationRespond(r) ==
    IF r.call = "fails" THEN EvalFail("exception")
    ELSE IF r.top = "none" THEN EvalFail("parse_failure")
    ELSE IF r.top = "bad_span" THEN EvalFail("exception")   \* JSONDecodeError
    ELSE IF r.top # "dict" THEN EvalFail("exception")       \* no attribute 'get'
    ELSE EvaluationGenerate(IF r.holds THEN r.items ELSE <<>>, r.overall)

Tops == {"none", "bad_span", "null", "int", "str", "list", "dict"}

\* what bool(value), `key in value` and `'nodes' in value` can be for a
\* value of kind top that is no object with the expected key
Consistent(top, truthy, holds, nodes) ==
    /\ top \in {"none", "bad_span", "null"} => ~truthy
    /\ top = "int" => (~holds /\ ~nodes)
    /\ ~truthy => (~holds /\ ~nodes)
    /\ top = "dict" => ~holds

\* the answers without a list under the expected key
BadResponses ==
    { [NoGenIn EXCEPT !.call = "fails"] } \cup
    { [NoGenIn EXCEPT !.top = c[1], !.truthy = c[2], !.holds = c[3], !.nodes = c[4]] :
        c \in { x \in Tops \X BOOLEAN \X BOOLEAN \X BOOLEAN :
                   Consistent(x[1], x[2], x[3], x[4]) } }

\* the answers an agent may get: a bad one, a flowchart object (or a string or
\* list containing "nodes") in place of the list, or the list under its key
ResponsesOf(agent, lists) ==
    { [r EXCEPT !.agent = agent,
                !.items = IF r.nodes /\ ~r.holds /\ agent = "flowchart"
                          THEN IF r.top = "dict"
                               THEN <<GDict(<<Node1, Node2>>, <<Edge12>>)>>
                               ELSE <<GOther>>
                          ELSE <<>>] : r \in BadResponses } \cup
    { ParsedIn(agent, items, Absent) : items \in lists }

RespQuiz ==
    /\ gin = NoGenIn
    /\ \E r \in ResponsesOf("quiz", SeqsUpTo(QuizElements, MaxItems)) :
          gin' = r /\ gout' = QuizRespond(r)
    /\ UNCHANGED <<storeVars, ret, concVars, regVars>>

RespFlashcard ==
    /\ gin = NoGenIn
    /\ \E r \in ResponsesOf("flashcard", SeqsUpTo(FlashcardElements, MaxItems)) :
          gin' = r /\ gout' = FlashcardRespond(r)
    /\ UNCHANGED <<storeVars, ret, concVars, regVars>>

RespFlowchart ==
    /\ gin = NoGenIn
    /\ \E r \in ResponsesOf("flowchart", SeqsUpTo(FlowchartElements, MaxItems)) :
          gin' = r /\ gout' = FlowchartRespond(r)
    /\ UNCHANGED <<storeVars, ret, concVars, regVars>>

RespEvaluation ==
    /\ gin = NoGenIn
    /\ \E r \in ResponsesOf("evaluation", SeqsUpTo(EvaluationElements, MaxItems)) :
          gin' = r /\ gout' = EvaluationRespond(r)
    /\ UNCHANGED <<storeVars, ret, concVars, regVars>>

NextResp ==
    \/ RespQuiz
    \/ RespFlashcard
    \/ RespFlowchart
    \/ RespEvaluation

SpecResp == Init /\ [][NextResp]_vars

(***************************************************************************)
(* SpecReg: AgentRegistry.  _agents is a dictionary in insertion order,    *)
(* modelled as the sequence of its (name, class) items.                    *)
(***************************************************************************)
RegisteredNames(table) == [i \in 1..Len(table) |-> table[i].name]
IsRegistered(table, name) == \E i \in 1..Len(table) : table[i].name = name
ClassOf(table, name) ==
    table[CHOOSE i \in 1..Len(table) : table[i].name = name].cls

\* cls._agents[agent_name] = agent_class
DictSet(table, name, c) ==
    IF IsRegistered(table, name)
    THEN [i \in 1..Len(table) |->
            IF table[i].name = name THEN [name |-> name, cls |-> c] ELSE table[i]]
    ELSE Append(table, [name |-> name, cls |-> c])

\* cls._agents.pop(agent_name, None)
DictPop(table, name) == SelectSeq(table, LAMBDA e : e.name # name)

\* k.startswith(agent_name)
StartsWith(k, prefix) ==
    Len(k) >= Len(prefix) /\ SubSeq(k, 1, Len(prefix)) = prefix

RegRet(op, arg, name) == [NoRegRet EXCEPT !.op = op, !.arg = arg, !.name = name]

Register(c) ==
    LET agent_name == Lower(AgentName[c])
    IN  /\ agents' = DictSet(agents, agent_name, c)
        /\ rret' = [RegRet("register", AgentName[c], agent_name)
                        EXCEPT !.ok = TRUE, !.cls = c]
        /\ UNCHANGED <<instances, ninst, served>>

\* get raising KeyError with an empty list of available agents
GetNotFound_ListNone(arg, kwargs) ==
    /\ rret' = [RegRet("get", arg, Lower(arg))
                    EXCEPT !.cfg = kwargs, !.error = "not_found"]
    /\ UNCHANGED <<agents, instances, ninst, served>>

\* get on a name that is not registered: KeyError; its message joins
\* cls._agents.keys() with ", ", kept here as the sequence of the names joined
\* (the empty sequence reads 'none registered')
GetNotFound(arg, kwargs) ==
    /\ rret' = [RegRet("get", arg, Lower(arg))
                    EXCEPT !.cfg = kwargs, !.error = "not_found",
                           !.available = RegisteredNames(agents)]
    /\ UNCHANGED <<agents, instances, ninst, served>>

\* the record of the instance returned last, kept for the names in RegNames
Serve(name, kwargs, id) ==
    IF <<name, kwargs>> \in DOMAIN served
    THEN [served EXCEPT ![<<name, kwargs>>] = id]
    ELSE served

Get(arg, kwargs) ==
    LET agent_name == Lower(arg)
        key == cache_key(agent_name, kwargs)
        r == [RegRet("get", arg, agent_name) EXCEPT !.cfg = kwargs]
    IN  IF ~IsRegistered(agents, agent_name)
        THEN GetNotFound(arg, kwargs)
        ELSE IF instances[key].id # 0
        THEN /\ rret' = [r EXCEPT !.ok = TRUE, !.inst = instances[key]]
             /\ served' = Serve(agent_name, kwargs, instances[key].id)
             /\ UNCHANGED <<agents, instances, ninst>>
        ELSE \/ \* the constructor raises: nothing is cached
                /\ rret' = [r EXCEPT !.error = "constructor_raised"]
                /\ UNCHANGED <<agents, instances, ninst, served>>
             \/ /\ ninst < MaxInst
                /\ LET inst == [id |-> ninst + 1, cls |-> ClassOf(agents, agent_name),
                                cfg |-> kwargs]
                   IN  /\ instances' = [instances EXCEPT ![key] = inst]
                       /\ rret' = [r EXCEPT !.ok = TRUE, !.inst = inst]
                       /\ served' = Serve(agent_name, kwargs, inst.id)
                /\ ninst' = ninst + 1
                /\ UNCHANGED agents

Unregister(arg) ==
    LET agent_name == Lower(arg)
    IN  /\ agents' = DictPop(agents, agent_name)
        /\ instances' = [k \in Keys |->
                            IF StartsWith(k, agent_name) THEN NoInst ELSE instances[k]]
        /\ served' = Interrupted
        /\ rret' = [RegRet("unregister", arg, agent_name) EXCEPT !.ok = TRUE]
        /\ UNCHANGED ninst

ClearCache ==
    /\ instances' = [k \in Keys |-> NoInst]
    /\ served' = Interrupted
    /\ rret' = [RegRet("clear_cache", <<>>, <<>>) EXCEPT !.ok = TRUE]
    /\ UNCHANGED <<agents, ninst>>

notRegVars ==
    <<storeVars, ret, concVars, genVars, rpc, rloc, imported, extVars, pureVars>>

DoRegister == (\E c \in Classes : Register(c)) /\ UNCHANGED notRegVars

DoGet ==
    /\ \E arg \in NameArgs, kwargs \in Cfgs : Get(arg, kwargs)
    /\ UNCHANGED notRegVars

DoUnregister == (\E arg \in NameArgs : Unregister(arg)) /\ UNCHANGED notRegVars

DoClearCache == ClearCache /\ UNCHANGED notRegVars

NextReg ==
    \/ DoRegister
    \/ DoGet
    \/ DoUnregister
    \/ DoClearCache

SpecReg == Init /\ [][NextReg]_vars

(***************************************************************************)
(* SpecRegConc: AgentRegistry.get called from several request threads.     *)
(* get holds no lock; a thread can be suspended between the membership     *)
(* test, the constructor call, the assignment to the dictionary and the    *)
(* read of the dictionary in the return statement.                         *)
(***************************************************************************)
\* number of get calls of one thread
MaxCalls == 1

\* an assignment that adds an entry under a key no entry has yet
DictAssign_FreshKey(cache, key, inst) ==
    [cache EXCEPT ![CHOOSE k \in Keys : cache[k].id = 0] = inst]

\* cls._instances[cache_key] = ...
DictAssign(cache, key, inst) == [cache EXCEPT ![key] = inst]

\* agent_name.lower(), the lookup in _agents, the cache key and the test
\* `cache_key not in cls._instances`
GetBegin(p, arg, kwargs) ==
    LET agent_name == Lower(arg)
        key == cache_key(agent_name, kwargs)
        l == [NoRegLoc EXCEPT !.name = agent_name, !.cfg = kwargs,
                              !.calls = rloc[p].calls + 1]
    IN  /\ rpc[p] = "idle"
        /\ rloc[p].calls < MaxCalls
        /\ IF ~IsRegistered(agents, agent_name)
           THEN /\ rpc' = [rpc EXCEPT ![p] = "done"]
                /\ rloc' = [rloc EXCEPT ![p] = [l EXCEPT !.error = "not_found"]]
           ELSE /\ rpc' = [rpc EXCEPT ![p] =
                            IF instances[key].id = 0 THEN "construct" ELSE "read"]
                /\ rloc' = [rloc EXCEPT ![p] = [l EXCEPT !.key = key]]
        /\ UNCHANGED <<agents, instances, ninst, served, rret>>

\* cls._agents[agent_name](**kwargs): the constructor runs
GetConstruct(p) ==
    /\ rpc[p] = "construct"
    /\ ninst < MaxInst
    /\ rloc' = [rloc EXCEPT ![p].made =
                    [id |-> ninst + 1, cls |-> ClassOf(agents, rloc[p].name),
                     cfg |-> rloc[p].cfg]]
    /\ ninst' = ninst + 1
    /\ rpc' = [rpc EXCEPT ![p] = "store"]
    /\ UNCHANGED <<agents, instances, served, rret>>

\* cls._instances[cache_key] = <the new instance>
GetStore(p) ==
    /\ rpc[p] = "store"
    /\ instances' = DictAssign(instances, rloc[p].key, rloc[p].made)
    /\ rpc' = [rpc EXCEPT ![p] = "read"]
    /\ UNCHANGED <<agents, ninst, served, rret, rloc>>

\* return cls._instances[cache_key]
GetRead(p) ==
    /\ rpc[p] = "read"
    /\ rloc' = [rloc EXCEPT ![p].result = instances[rloc[p].key]]
    /\ rpc' = [rpc EXCEPT ![p] = "done"]
    /\ UNCHANGED <<agents, instances, ninst, served, rret>>

\* the caller has the result; the thread serves the next request
GetDone(p) ==
    /\ rpc[p] = "done"
    /\ rpc' = [rpc EXCEPT ![p] = "idle"]
    /\ UNCHANGED <<agents, instances, ninst, served, rret, rloc>>

notRegConcVars ==
    <<storeVars, ret, concVars, genVars, imported, extVars, pureVars>>

\* the decorators run at import, before any request thread calls get
ConcRegister ==
    /\ \A p \in Procs : rpc[p] = "idle" /\ rloc[p].calls = 0
    /\ \E c \in Classes : Register(c)
    /\ UNCHANGED <<rpc, rloc>>
    /\ UNCHANGED notRegConcVars

ConcGetBegin ==
    /\ \E p \in Procs, arg \in NameArgs, kwargs \in Cfgs : GetBegin(p, arg, kwargs)
    /\ UNCHANGED notRegConcVars

ConcGetConstruct == (\E p \in Procs : GetConstruct(p)) /\ UNCHANGED notRegConcVars

ConcGetStore == (\E p \in Procs : GetStore(p)) /\ UNCHANGED notRegConcVars

ConcGetRead == (\E p \in Procs : GetRead(p)) /\ UNCHANGED notRegConcVars

ConcGetDone == (\E p \in Procs : GetDone(p)) /\ UNCHANGED notRegConcVars

NextRegConc ==
    \/ ConcRegister
    \/ ConcGetBegin
    \/ ConcGetConstruct
    \/ ConcGetStore
    \/ ConcGetRead
    \/ ConcGetDone

SpecRegConc == Init /\ [][NextRegConc]_vars

(***************************************************************************)
(* SpecStartup: the import of the agents package registers the agents, and *)
(* the views, which import get_agent from the package, ask for theirs.     *)
(***************************************************************************)
\* the import statements of agent modules in agents/__init__.py, in order
PackageImports ==
    <<"SummaryAgent", "QuizAgent", "FlashcardAgent", "FlowchartAgent",
      "EvaluationAgent">>

\* the names views.py passes to get_agent
ViewNames ==
    { AgentName[c] : c \in
        {"SummaryAgent", "QuizAgent", "FlashcardAgent", "FlowchartAgent",
         "EvaluationAgent", "PodcastAgent", "ChatbotAgent"} }

\* one `from .x_agent import XAgent`: the decorator registers the class
ImportAgent ==
    /\ imported < Len(PackageImports)
    /\ Register(PackageImports[imported + 1])
    /\ imported' = imported + 1
    /\ UNCHANGED <<rpc, rloc, extVars, pureVars>>
    /\ UNCHANGED <<storeVars, ret, concVars, genVars>>

\* agent = get_agent(<name>) in a view; views.py imports the package first
ViewGetAgent ==
    /\ imported = Len(PackageImports)
    /\ \E name \in ViewNames : Get(name, "none")
    /\ UNCHANGED notRegVars

NextStartup ==
    \/ ImportAgent
    \/ ViewGetAgent

SpecStartup == Init /\ [][NextStartup]_vars

(***************************************************************************)
(* SpecExt: the operations around their call of an external service:       *)
(* embed_documents in add_document, embed_query in search, and             *)
(* generate_content(_async) in the agents' generate.  The calls are made   *)
(* without a timeout argument and are not wrapped in one.                  *)
(***************************************************************************)
ExtOps ==
    {"add_document", "search", "summary", "quiz", "flashcard", "flowchart",
     "evaluation"}

\* the operations whose external call is inside `try ... except Exception`
ExtGuarded == ExtOps \ {"summary"}

\* the operation reaches its external call and blocks in it
ExtCall(p, op) ==
    /\ xpc[p] = "idle"
    /\ xpc' = [xpc EXCEPT ![p] = "waiting"]
    /\ xret' = [xret EXCEPT ![p] = [NoExtRet EXCEPT !.op = op]]

\* the service answers: the client library returns to the operation
ExtRespond(p) ==
    /\ xpc[p] = "waiting"
    /\ xpc' = [xpc EXCEPT ![p] = "responded"]
    /\ UNCHANGED xret

\* the client library raises (connection refused, quota, its own deadline)
ExtRaise(p) ==
    /\ xpc[p] = "waiting"
    /\ xpc' = [xpc EXCEPT ![p] = "raised"]
    /\ UNCHANGED xret

\* the rest of the operation: it returns its result, or the failure result
\* of its except clause, or lets the exception through
ExtFinish(p) ==
    /\ xpc[p] \in {"responded", "raised"}
    /\ xpc' = [xpc EXCEPT ![p] = "returned"]
    /\ xret' = [xret EXCEPT ![p] =
          IF xpc[p] = "responded"
          THEN [@ EXCEPT !.success = TRUE]
          ELSE IF @.op \in ExtGuarded
               THEN [@ EXCEPT !.error = "exception_text"]
               ELSE [@ EXCEPT !.raised = TRUE]]

\* the caller has the result; the thread serves the next request
ExtNext(p) ==
    /\ xpc[p] = "returned"
    /\ xpc' = [xpc EXCEPT ![p] = "idle"]
    /\ xret' = [xret EXCEPT ![p] = NoExtRet]

notExtVars ==
    <<storeVars, ret, concVars, genVars, agents, instances, ninst, served, rret,
      rpc, rloc, imported, pureVars>>

DoExtCall == (\E p \in Procs, op \in ExtOps : ExtCall(p, op)) /\ UNCHANGED notExtVars
DoExtRespond == (\E p \in Procs : ExtRespond(p)) /\ UNCHANGED notExtVars
DoExtRaise == (\E p \in Procs : ExtRaise(p)) /\ UNCHANGED notExtVars
DoExtFinish == (\E p \in Procs : ExtFinish(p)) /\ UNCHANGED notExtVars
DoExtNext == (\E p \in Procs : ExtNext(p)) /\ UNCHANGED notExtVars

NextExt ==
    \/ DoExtCall
    \/ DoExtRespond
    \/ DoExtRaise
    \/ DoExtFinish
    \/ DoExtNext

\* a thread that can run its own code does so; nothing makes the service
\* answer or the client library give up
SpecExt ==
    /\ Init
    /\ [][NextExt]_vars
    /\ \A p \in Procs : WF_vars(ExtFinish(p) /\ UNCHANGED notExtVars)

(***************************************************************************)
(* SpecChunk: RecursiveCharacterTextSplitter.split_text on texts with      *)
(* blanks.  Of the separators "\n\n", "\n", ". ", " ", "" the texts meet    *)
(* " " and "": keep_separator and strip_whitespace have their defaults     *)
(* (True), so a separator stays at the start of the split after it and     *)
(* every chunk is stripped when its splits are joined.                     *)
(***************************************************************************)
TextChars == {"a", "b", " "}

\* the separators left for texts without line breaks and full stops
BlankSeparators == <<" ", "">>

RECURSIVE Flatten(_)
Flatten(docs) == IF docs = <<>> THEN <<>> ELSE Head(docs) \o Flatten(Tail(docs))

\* _join_docs: separator.join(docs).strip(); the empty result stands for None
JoinDocs(current_doc) == Strip(Flatten(current_doc))

\* the front-popping loop of _merge_splits on splits of any length
RECURSIVE PopFrontOf(_, _, _)
PopFrontOf(current_doc, total, len) ==
    IF total > ChunkOverlap \/ (total + len > ChunkSize /\ total > 0)
    THEN PopFrontOf(Tail(current_doc), total - Len(Head(current_doc)), len)
    ELSE [doc |-> current_doc, total |-> total]

\* _merge_splits(splits, "") with its locals current_doc, total and docs
RECURSIVE MergeSplitsOf(_, _, _, _)
MergeSplitsOf(splits, current_doc, total, docs) ==
    IF splits = <<>>
    THEN IF JoinDocs(current_doc) = <<>> THEN docs
         ELSE Append(docs, JoinDocs(current_doc))
    ELSE LET d == Head(splits)
             full == total + Len(d) > ChunkSize /\ Len(current_doc) > 0
             docs2 == IF full /\ JoinDocs(current_doc) # <<>>
                      THEN Append(docs, JoinDocs(current_doc)) ELSE docs
             kept == IF full THEN PopFrontOf(current_doc, total, Len(d))
                     ELSE [doc |-> current_doc, total |-> total]
         IN  MergeSplitsOf(Tail(splits), Append(kept.doc, d),
                           kept.total + Len(d), docs2)

\* _split_text_with_regex(text, " ", keep_separator = True): the text cut
\* before every blank, empty pieces dropped
RECURSIVE SplitAtBlanks(_, _, _)
SplitAtBlanks(text, piece, pieces) ==
    IF text = <<>>
    THEN IF piece = <<>> THEN pieces ELSE Append(pieces, piece)
    ELSE IF Head(text) = " "
         THEN SplitAtBlanks(Tail(text), <<" ">>,
                            IF piece = <<>> THEN pieces ELSE Append(pieces, piece))
         ELSE SplitAtBlanks(Tail(text), Append(piece, Head(text)), pieces)

\* _split_text_with_regex(text, "", ...): list(text)
SplitChars(text) == [i \in 1..Len(text) |-> <<text[i]>>]

Contains(text, c) == \E i \in 1..Len(text) : text[i] = c

\* _split_text(text, separators): the first separator found in the text is
\* used, the separators after it are left for the splits that are too long
RECURSIVE SplitText(_, _)
RECURSIVE SplitEach(_, _, _, _)
SplitEach(splits, good_splits, final_chunks, new_separators) ==
    LET merged == IF good_splits = <<>> THEN final_chunks
                  ELSE final_chunks \o MergeSplitsOf(good_splits, <<>>, 0, <<>>)
    IN  IF splits = <<>> THEN merged
        ELSE IF Len(Head(splits)) < ChunkSize
        THEN SplitEach(Tail(splits), Append(good_splits, Head(splits)),
                       final_chunks, new_separators)
        ELSE IF new_separators = <<>>
        THEN SplitEach(Tail(splits), <<>>, Append(merged, Head(splits)),
                       new_separators)
        ELSE SplitEach(Tail(splits), <<>>,
                       merged \o SplitText(Head(splits), new_separators),
                       new_separators)

SplitText(text, separators) ==
    IF Head(separators) = " " /\ Contains(text, " ")
    THEN SplitEach(SplitAtBlanks(text, <<>>, <<>>), <<>>, <<>>, Tail(separators))
    ELSE SplitEach(SplitChars(text), <<>>, <<>>, <<>>)

\* self.text_splitter.split_text(text)
split_text_blanks(text) == SplitText(text, BlankSeparators)

SplitInputs == SeqsUpTo(TextChars, MaxTextLen)

DoSplit ==
    /\ ~stext.given
    /\ \E text \in SplitInputs :
          /\ stext' = [given |-> TRUE, text |-> text]
          /\ schunks' = split_text_blanks(text)
    /\ UNCHANGED <<presp, pout>>
    /\ UNCHANGED <<storeVars, ret, concVars, genVars, agents, instances, ninst,
                   served, rret, rpc, rloc, imported, extVars>>

NextChunk == DoSplit

SpecChunk == Init /\ [][NextChunk]_vars

(***************************************************************************)
(* SpecParse: _parse_quiz_response (the flashcard parser has the same      *)
(* code with its own key) and _parse_flowchart_response.  A response text  *)
(* is a sequence of tokens, white space between them left out:             *)
(*   "{", "}"  braces                                                      *)
(*   "k"       the member  "questions": [...]  /  "flowcharts": [...]      *)
(*   "n"       the member  "nodes": [...]                                  *)
(*   "w"       a word of prose                                             *)
(*   "F"       a fence (three backquotes)                                  *)
(*   "j"       the word json                                               *)
(***************************************************************************)
ParseFail == [ok |-> FALSE, strategy |-> NONE, key |-> NONE]

\* json.loads: the texts of the token language that are JSON are the
\* objects with no member or with one member
json_loads(t) ==
    IF t = <<"{", "}">> THEN [ok |-> TRUE, key |-> NONE]
    ELSE IF Len(t) = 3 /\ t[1] = "{" /\ t[2] \in {"k", "n"} /\ t[3] = "}"
    THEN [ok |-> TRUE, key |-> t[2]]
    ELSE [ok |-> FALSE, key |-> NONE]

NoMatch == [found |-> FALSE, str |-> <<>>]

\* re.findall(r'<fence>json\s*([\s\S]*?)\s*<fence>', text)[0]: the text between the
\* leftmost <fence>json that has a fence after it and the nearest such fence
FencedJson(text) ==
    LET opens == { i \in 1..Len(text) - 1 :
                     /\ text[i] = "F" /\ text[i + 1] = "j"
                     /\ \E e \in i + 2..Len(text) : text[e] = "F" }
    IN  IF opens = {} THEN NoMatch
        ELSE LET i == CHOOSE x \in opens : \A y \in opens : x <= y
                 closes == { e \in i + 2..Len(text) : text[e] = "F" }
                 e == CHOOSE x \in closes : \A y \in closes : x <= y
             IN  [found |-> TRUE, str |-> SubSeq(text, i + 2, e - 1)]

\* re.findall(r'<fence>\s*([\s\S]*?)\s*<fence>', text)[0]
Fenced(text) ==
    LET opens == { i \in 1..Len(text) :
                     /\ text[i] = "F"
                     /\ \E e \in i + 1..Len(text) : text[e] = "F" }
    IN  IF opens = {} THEN NoMatch
        ELSE LET i == CHOOSE x \in opens : \A y \in opens : x <= y
                 closes == { e \in i + 1..Len(text) : text[e] = "F" }
                 e == CHOOSE x \in closes : \A y \in closes : x <= y
             IN  [found |-> TRUE, str |-> SubSeq(text, i + 1, e - 1)]

\* re.findall(r'\{[\s\S]*"<key>"[\s\S]*\}', text)[0]: both [\s\S]* are
\* greedy, the match runs from the leftmost "{" that has the key and a "}"
\* after it to the last "}" of the text
KeySpan(text, key) ==
    LET opens == { i \in 1..Len(text) :
                     /\ text[i] = "{"
                     /\ \E m \in i + 1..Len(text) :
                           /\ text[m] = key
                           /\ \E e \in m + 1..Len(text) : text[e] = "}" }
    IN  IF opens = {} THEN NoMatch
        ELSE LET i == CHOOSE x \in opens : \A y \in opens : x <= y
                 closes == { e \in 1..Len(text) : text[e] = "}" }
                 e == CHOOSE x \in closes : \A y \in closes : x >= y
             IN  [found |-> TRUE, str |-> SubSeq(text, i, e)]

\* the loop over json_patterns: the first pattern that matches
\* and whose first match json.loads accepts gives the result
RECURSIVE TryPatterns(_)
TryPatterns(matches) ==
    IF matches = <<>> THEN ParseFail
    ELSE LET m == Head(matches)
         IN  IF m.found /\ json_loads(m.str).ok
             THEN [ok |-> TRUE, strategy |-> m.strategy, key |-> json_loads(m.str).key]
             ELSE TryPatterns(Tail(matches))

Pattern(strategy, match) ==
    [strategy |-> strategy, found |-> match.found, str |-> match.str]

\* the parser with the key patterns of the given keys after the fence patterns
ParseResponse(text, keys) ==
    IF json_loads(text).ok
    THEN [ok |-> TRUE, strategy |-> "whole", key |-> json_loads(text).key]
    ELSE TryPatterns(
            <<Pattern("fenced", FencedJson(text)), Pattern("fenced", Fenced(text))>>
            \o [i \in 1..Len(keys) |-> Pattern("span", KeySpan(text, keys[i]))])

parse_quiz_response(text) == ParseResponse(text, <<"k">>)
parse_flowchart_response(text) == ParseResponse(text, <<"k", "n">>)

QuizTokens == {"{", "}", "k", "w", "F", "j"}
FlowchartTokens == {"{", "}", "k", "n", "w"}

notPureVars ==
    <<storeVars, ret, concVars, genVars, agents, instances, ninst, served, rret,
      rpc, rloc, imported, extVars>>

ParseQuiz ==
    /\ ~presp.given
    /\ \E text \in SeqsUpTo(QuizTokens, MaxRespLen) :
          /\ presp' = [given |-> TRUE, agent |-> "quiz", text |-> text]
          /\ pout' = parse_quiz_response(text)
    /\ UNCHANGED <<stext, schunks>>
    /\ UNCHANGED notPureVars

ParseFlowchart ==
    /\ ~presp.given
    /\ \E text \in SeqsUpTo(FlowchartTokens, MaxRespLen) :
          /\ presp' = [given |-> TRUE, agent |-> "flowchart", text |-> text]
          /\ pout' = parse_flowchart_response(text)
    /\ UNCHANGED <<stext, schunks>>
    /\ UNCHANGED notPureVars

NextParse ==
    \/ ParseQuiz
    \/ ParseFlowchart

SpecParse == Init /\ [][NextParse]_vars

(***************************************************************************)
(* Properties of the vector store.                                         *)
(***************************************************************************)
BundleExists(d) == index[d].exists /\ meta[d].exists

\* C1: every search that succeeds has loaded an index file and a metadata
\* file written by one and the same add_document call, whatever other calls
\* for the same id run at the same time.
C1_SearchReadsOneBuild ==
    (ret.op = "search" /\ ret.success) => ret.ibuild = ret.mbuild

\* C2: whenever both files of an id exist, the number of vectors in the
\* index, the length of the stored chunk list and the stored chunk_count
\* are equal.
C2_BundleCountsAgree ==
    \A d \in DocIds :
        BundleExists(d) =>
            /\ Len(index[d].vectors) = Len(meta[d].chunks)
            /\ Len(meta[d].chunks) = meta[d].chunk_count

C4_PartialIsNotIndexed ==
    \A d \in DocIds :
        (index[d].exists # meta[d].exists /\ ret.doc = d) =>
            /\ ret.op = "document_exists" => ret.value = FALSE
            /\ (ret.op = "search" /\ ret.key) =>
                   (~ret.success /\ ret.error = "index_not_found")
            /\ ret.op = "get_all_chunks" => (~ret.success /\ ret.chunks = <<>>)
            /\ ret.op = "get_context_for_generation" => ret.context = <<>>

\* C5 as stated: a search on an id no add_document has written a file for
\* fails with index-not-found, empty chunks and empty scores, whatever the
\* query, top_k and configuration.
C5_NeverBuiltIsNotFound ==
    (ret.op = "search" /\ ret.doc \notin built)
    => /\ ~ret.success
       /\ ret.error = "index_not_found"
       /\ ret.chunks = <<>>
       /\ ret.scores = <<>>

\* C5 amended: a search on an id no add_document has written a file for
\* returns success=false with empty chunks and empty scores; the error is
\* index-not-found when an embedding capability is configured and
\* embeddings-not-configured when none is.
C5_NeverBuiltFails ==
    (ret.op = "search" /\ ret.doc \notin built)
    => /\ ~ret.success
       /\ ret.error = IF ret.key THEN "index_not_found" ELSE "not_configured"
       /\ ret.chunks = <<>>
       /\ ret.scores = <<>>

\* a configured search for an id never built, while another id has a bundle
C5_Witness ==
    /\ ret.op = "search"
    /\ ret.doc \notin built
    /\ ret.key
    /\ ret.top_k > 0
    /\ ~ret.success
    /\ ret.error = "index_not_found"
    /\ \E e \in DocIds : BundleExists(e)

\* C6: a successful search on a bundle whose two files were written by one
\* add_document call returns at most min(top_k, chunk_count) chunks, as many
\* scores as chunks, the j-th score being the distance of the j-th chunk to
\* the query, in non-decreasing distance order, equal distances in
\* increasing chunk index.
C6_SearchRanked ==
    (ret.op = "search" /\ ret.success /\ ret.ibuild = ret.mbuild)
    => LET mt == meta[ret.doc]
           ix == index[ret.doc]
           n == Len(ret.chunks)
       IN  /\ n <= Min(ret.top_k, mt.chunk_count)
           /\ Len(ret.scores) = n
           /\ Len(ret.labels) = n
           /\ \A j \in 1..n :
                /\ ret.labels[j] \in 0..(mt.chunk_count - 1)
                /\ ret.chunks[j] = mt.chunks[ret.labels[j] + 1]
                /\ ret.scores[j] = L2(ix.vectors[ret.labels[j] + 1], ret.qemb[1])
           /\ \A j \in 1..(n - 1) :
                \/ ret.scores[j] < ret.scores[j + 1]
                \/ /\ ret.scores[j] = ret.scores[j + 1]
                   /\ ret.labels[j] < ret.labels[j + 1]

\* a search that returned two chunks at the same distance, out of a bundle
\* that has a nearer or farther chunk order to get wrong
C6_Witness ==
    /\ ret.op = "search"
    /\ ret.success
    /\ ret.ibuild = ret.mbuild
    /\ Len(ret.chunks) = 2
    /\ ret.scores[1] = ret.scores[2]

C8_AddReplacesBundle ==
    [][(ret'.op = "add_document" /\ ret'.success) =>
         LET d == ret'.doc
             chunks == split_text(ret'.text)
         IN  /\ meta'[d].exists /\ index'[d].exists
             /\ meta'[d].chunks = chunks
             /\ meta'[d].chunk_count = Len(chunks)
             /\ ret'.chunk_count = Len(chunks)
             /\ Len(index'[d].vectors) = Len(chunks)
             /\ index'[d].build = nbuilds'
             /\ meta'[d].build = nbuilds'
             /\ nbuilds' # nbuilds
             /\ \A e \in DocIds \ {d} : index'[e] = index[e] /\ meta'[e] = meta[e]]_vars

\* a successful add_document on an id whose metadata held the chunks of
\* another text
C8_Witness ==
    /\ ret.op = "add_document"
    /\ ret.success
    /\ ret.prior # <<>>
    /\ ret.prior # meta[ret.doc].chunks

\* C9: add_document with a text that yields no chunk, or without a
\* configured embedding capability, returns success=false, chunk_count 0 and
\* an error, and changes no file.
C9_AddRejectsWithoutEffect ==
    [][(ret'.op = "add_document" /\ (~ret'.key \/ split_text(ret'.text) = <<>>)) =>
         /\ ~ret'.success
         /\ ret'.chunk_count = 0
         /\ ret'.error = IF ~ret'.key THEN "not_configured" ELSE "no_chunks"
         /\ index' = index
         /\ meta' = meta]_vars

\* an add_document of an empty text on an id that has a bundle
C9_Witness ==
    /\ ret.op = "add_document"
    /\ ret.key
    /\ ret.text = <<>>
    /\ ret.error = "no_chunks"
    /\ BundleExists(ret.doc)


(***************************************************************************)
(* Properties of the validators.                                           *)
(***************************************************************************)
\* an element with every field supplied, of the right type and in range
WellFormedQuestion(q) ==
    /\ q.kind = "dict"
    /\ \A k \in QuizRequired : q[k].t = "str"
    /\ q.explanation.t \in {"str", "absent"}
    /\ Strip(Upper(q.correct_answer.v)) \in valid_answers

WellFormedCard(card) ==
    /\ card.kind = "dict"
    /\ card.front.t = "str" /\ Strip(card.front.v) # <<>>
    /\ card.back.t = "str" /\ Strip(card.back.v) # <<>>
    /\ card.priority.t \in {"int", "float", "str", "absent"}

WellFormedNode(node) ==
    /\ node.kind = "dict"
    /\ node.id.t \in {"str", "int"} /\ node.id.v # <<>>
    /\ node.label.t = "str" /\ Strip(node.label.v) # <<>>

WellFormedEdge(edge) == edge.kind = "dict"

\* a flowchart with at least one well-formed node
WellFormedFlowchart(g) ==
    /\ g.kind = "dict"
    /\ \E k \in 1..Len(g.nodes) : WellFormedNode(g.nodes[k])

\* the flowchart without its malformed nodes and edges
WellFormedPart(g) ==
    [g EXCEPT !.nodes = SelectSeq(g.nodes, WellFormedNode),
              !.edges = SelectSeq(g.edges, WellFormedEdge)]

\* the questions without their display order
Questions(items) == [k \in 1..Len(items) |-> [items[k] EXCEPT !.order = 0]]

\* C10: whenever the parsed list holds at least one well-formed item,
\* generate succeeds and returns what it returns for the list of the
\* well-formed items alone; the malformed items are skipped.
C10_MalformedItemsSkipped ==
    /\ (gin.agent = "quiz"
        /\ \E k \in 1..Len(gin.items) : WellFormedQuestion(gin.items[k]))
       => /\ gout.success
          /\ Questions(gout.items) =
                 Questions(validate_questions(
                               SelectSeq(gin.items, WellFormedQuestion)).items)
    /\ (gin.agent = "flashcard"
        /\ \E k \in 1..Len(gin.items) : WellFormedCard(gin.items[k]))
       => /\ gout.success
          /\ gout.items =
                 validate_flashcards(SelectSeq(gin.items, WellFormedCard)).items
    /\ (gin.agent = "flowchart"
        /\ \E k \in 1..Len(gin.items) : WellFormedFlowchart(gin.items[k]))
       => /\ gout.success
          /\ LET good == SelectSeq(gin.items, WellFormedFlowchart)
             IN  gout.items =
                     ValidateFlowcharts([k \in 1..Len(good) |-> WellFormedPart(good[k])],
                                        <<>>).items

\* the normalized answer of an element that supplies every required key and
\* a string correct_answer
QuizAnswer(q) == Strip(Upper(q.correct_answer.v))

QuizComplete(q) ==
    /\ q.kind = "dict"
    /\ \A k \in QuizRequired : q[k].t # "absent"
    /\ q.correct_answer.t = "str"

\* C11: whenever the quiz validator returns, its output holds exactly the
\* input elements whose correct_answer, upper-cased and trimmed, is one of
\* A, B, C, D, each with that normalized answer, in input order, the order
\* value of each being its zero-based position in the input list.
C11_QuizAnswersNormalized ==
    (gin.agent = "quiz" /\ gout.error # "exception")
    => LET n == Len(gout.items)
           kept == { i \in 1..Len(gin.items) :
                       /\ QuizComplete(gin.items[i])
                       /\ QuizAnswer(gin.items[i]) \in valid_answers }
       IN  /\ { gout.items[k].order + 1 : k \in 1..n } = kept
           /\ n = Cardinality(kept)
           /\ \A k \in 1..n :
                /\ gout.items[k].correct_answer \in valid_answers
                /\ gout.items[k].correct_answer =
                       QuizAnswer(gin.items[gout.items[k].order + 1])
                /\ gout.items[k].question =
                       Strip(PyStr(gin.items[gout.items[k].order + 1].question))
           /\ \A k \in 1..(n - 1) : gout.items[k].order < gout.items[k + 1].order
           /\ gout.success = (kept # {})

\* an "e" element dropped and a " b " element after it kept as "B"
C11_Witness ==
    /\ gin.agent = "quiz"
    /\ Len(gin.items) = 2
    /\ QuizComplete(gin.items[1]) /\ gin.items[1].correct_answer.v = <<"e">>
    /\ QuizComplete(gin.items[2]) /\ gin.items[2].correct_answer.v = <<" ", "b", " ">>
    /\ gout.success
    /\ Len(gout.items) = 1
    /\ gout.items[1].correct_answer = <<"B">>
    /\ gout.items[1].order = 1

\* a card with string front and back that are non-empty once trimmed
CardHasContent(card) ==
    /\ card.kind = "dict"
    /\ card.front.t = "str" /\ Strip(card.front.v) # <<>>
    /\ card.back.t = "str" /\ Strip(card.back.v) # <<>>

\* the priority C12 gives a card: the integer clamped to 1..5, the integer a
\* numeric string denotes clamped likewise, and 3 for every other value
CardPriority(card) ==
    LET p == card.priority
    IN  IF p.t = "int" THEN Max(1, Min(5, p.n))
        ELSE IF p.t = "str" /\ IsInt(p.v) THEN Max(1, Min(5, PyInt(p.v)))
        ELSE 3

\* C12: whenever the flashcard validator returns, every card of its output
\* has an integer priority in 1..5, and every input card with non-empty
\* front and back is in the output, with priority 3 when its priority is
\* missing or invalid and with the clamped integer otherwise.
C12_PriorityCoercedAndClamped ==
    (gin.agent = "flashcard" /\ gout.error # "exception")
    => /\ \A k \in 1..Len(gout.items) :
            ~gout.items[k].half /\ gout.items[k].priority \in 1..5
       /\ \A i \in 1..Len(gin.items) :
            CardHasContent(gin.items[i]) =>
                \E k \in 1..Len(gout.items) :
                    /\ gout.items[k].front = Strip(gin.items[i].front.v)
                    /\ gout.items[k].priority = CardPriority(gin.items[i])

\* the numeric order of two kept priorities
PriorityLess(x, y) ==
    x.priority < y.priority \/ (x.priority = y.priority /\ ~x.half /\ y.half)

\* C13: whenever the flashcard validator returns, its output is the cards
\* the item loop kept, sorted by priority ascending, cards of equal priority
\* in their input order, and the order values along the list are 0..n-1.
C13_SortedByPriorityThenInput ==
    (gin.agent = "flashcard" /\ gout.error # "exception")
    => LET n == Len(gout.items)
           m == Len(gin.items)
           kept == { i \in 1..m : FlashcardItem(gin.items[i], i - 1).res = "keep" }
       IN  /\ \A k \in 1..n : gout.items[k].order = k - 1
           /\ \A k \in 1..(n - 1) : ~PriorityLess(gout.items[k + 1], gout.items[k])
           /\ \E pos \in [1..n -> 1..m] :
                /\ { pos[k] : k \in 1..n } = kept
                /\ n = Cardinality(kept)
                /\ \A k \in 1..n :
                     gout.items[k] =
                         [FlashcardItem(gin.items[pos[k]], pos[k] - 1).item
                              EXCEPT !.order = k - 1]
                /\ \A k \in 1..(n - 1) :
                     PriorityLess(gout.items[k], gout.items[k + 1]) \/ pos[k] < pos[k + 1]

\* cards given with priorities 5, 1 and 3 come back as 1, 3, 5 with orders
\* 0, 1, 2
C13_Witness ==
    /\ gin.agent = "flashcard"
    /\ Len(gin.items) = 3
    /\ CardPriority(gin.items[1]) = 5 /\ gin.items[1].priority.t = "int"
    /\ CardPriority(gin.items[2]) = 1 /\ gin.items[2].priority.t = "int"
    /\ CardPriority(gin.items[3]) = 3
    /\ gout.success
    /\ Len(gout.items) = 3
    /\ \A k \in 1..3 : gout.items[k].order = k - 1 /\ gout.items[k].priority = 2 * k - 1
    /\ gout.items[1].front = Strip(gin.items[2].front.v)
    /\ gout.items[3].front = Strip(gin.items[1].front.v)

\* the ids of the nodes of a returned graph
NodeIds(g) == { g.nodes[k].id : k \in 1..Len(g.nodes) }

\* an input edge both of whose endpoints, as strings, are among ids
EdgeKnown(edge, ids) ==
    /\ edge.kind = "dict"
    /\ GetStr(edge.from, <<>>) \in ids
    /\ GetStr(edge.to, <<>>) \in ids

\* a graph with a node the node loop keeps
HasKeptNode(g) ==
    /\ g.kind = "dict"
    /\ \E k \in 1..Len(g.nodes) : FlowchartNode(g.nodes[k]).res = "keep"

\* C14: whenever flowchart generation returns, every edge of every returned
\* graph has both endpoints among the node ids of that same graph; the
\* returned graphs are the input graphs with at least one kept node, in
\* order, and the edges of each are exactly its input edges with both
\* endpoints known, so an edge to an unknown id is dropped and its graph
\* is still returned.
C14_EdgesWithinGraph ==
    (gin.agent = "flowchart" /\ gout.error # "exception")
    => LET good == SelectSeq(gin.items, HasKeptNode)
       IN  /\ Len(gout.items) = Len(good)
           /\ gout.success = (good # <<>>)
           /\ \A k \in 1..Len(gout.items) :
                LET g == gout.items[k]
                    ids == NodeIds(g)
                    known == SelectSeq(good[k].edges, LAMBDA e : EdgeKnown(e, ids))
                IN  /\ g.nodes # <<>>
                    /\ \A j \in 1..Len(g.edges) :
                         g.edges[j].from \in ids /\ g.edges[j].to \in ids
                    /\ Len(g.edges) = Len(known)
                    /\ \A j \in 1..Len(g.edges) :
                         /\ g.edges[j].from = GetStr(known[j].from, <<>>)
                         /\ g.edges[j].to = GetStr(known[j].to, <<>>)

\* a graph given with the edges 9 -> 2 and 1 -> 2 and the nodes 1 and 2
\* comes back with the edge 1 -> 2 alone
C14_Witness ==
    /\ gin.agent = "flowchart"
    /\ \E i \in 1..Len(gin.items) : gin.items[i] = GDict(<<Node1, Node2>>, <<Edge92, Edge12>>)
    /\ gout.success
    /\ \E k \in 1..Len(gout.items) :
          /\ NodeIds(gout.items[k]) = { <<"1">>, <<"2">> }
          /\ Len(gout.items[k].edges) = 1
          /\ gout.items[k].edges[1].from = <<"1">>
          /\ gout.items[k].edges[1].to = <<"2">>
          /\ gout.items[k].edge_count = 1

\* the id and label a well-formed node comes back with
CleanNode(node) == [id |-> PyStr(node.id), label |-> Strip(node.label.v)]

\* C15: whenever flowchart generation returns, the returned graphs are the
\* input graphs with at least one node whose id and label are both supplied
\* and non-empty, in order, each with exactly those nodes; node_count and
\* edge_count of each returned graph are the numbers of its returned nodes
\* and edges; the run fails exactly when no graph is returned.
C15_EmptyGraphsDropped ==
    (gin.agent = "flowchart" /\ gout.error # "exception")
    => LET good == SelectSeq(gin.items, WellFormedFlowchart)
       IN  /\ Len(gout.items) = Len(good)
           /\ gout.success = (good # <<>>)
           /\ gout.count = Len(gout.items)
           /\ \A k \in 1..Len(gout.items) :
                LET g == gout.items[k]
                    valid == SelectSeq(good[k].nodes, WellFormedNode)
                IN  /\ Len(g.nodes) = Len(valid)
                    /\ \A j \in 1..Len(g.nodes) :
                         /\ g.nodes[j].id = CleanNode(valid[j]).id
                         /\ g.nodes[j].label = CleanNode(valid[j]).label
                    /\ g.node_count = Len(g.nodes)
                    /\ g.edge_count = Len(g.edges)

\* a question object whose score is missing, a number or a numeric string
ScoredQuestion(q) ==
    q.kind = "dict" /\ (q.score_percentage.t = "absent" \/ FloatOk(q.score_percentage))

\* the score a question is given with, 0 when it has none
GivenScore(q) ==
    IF q.score_percentage.t = "absent" THEN 0 ELSE PyFloat(q.score_percentage)

\* C16: a successful evaluation returns every question of the response, in
\* input order with orders 1..n, each score_percentage the given score
\* brought into 0..100; when the response has no overall_score the returned
\* one is the mean of the returned scores, and a supplied one is brought
\* into 0..100; a response with zero questions fails; a response with at
\* least one question, all of them scored as above, succeeds.
C16_ScoresClampedAndAveraged ==
    gin.agent = "evaluation"
    => LET n == Len(gout.items)
           m == Len(gin.items)
           derived == gin.overall.t \in {"absent", "null"}
       IN  /\ m = 0 => (~gout.success /\ gout.error = "no_questions")
           /\ (/\ m > 0
               /\ \A i \in 1..m : ScoredQuestion(gin.items[i])
               /\ (derived \/ FloatOk(gin.overall))) => gout.success
           /\ gout.success =>
                /\ n = m /\ n > 0
                /\ \A k \in 1..n :
                     /\ gout.items[k].order = k
                     /\ gout.items[k].score_percentage \in 0..100
                     /\ LET x == GivenScore(gin.items[k])
                        IN  gout.items[k].score_percentage =
                                IF x < 0 THEN 0 ELSE IF x > 100 THEN 100 ELSE x
                /\ derived =>
                     gout.overall.num * n = gout.overall.den * SumScores(gout.items)
                /\ ~derived =>
                     /\ gout.overall.num \in 0..100
                     /\ gout.overall.den = 1

\* scores 100, 50 and 0 without an overall_score give the overall score 50
C16_Witness ==
    /\ gin.agent = "evaluation"
    /\ gin.overall.t = "absent"
    /\ Len(gin.items) = 3
    /\ \A i \in 1..3 : ScoredQuestion(gin.items[i])
    /\ GivenScore(gin.items[1]) = 100
    /\ GivenScore(gin.items[2]) = 50
    /\ GivenScore(gin.items[3]) = 0 /\ gin.items[3].score_percentage.t = "int"
    /\ gout.success
    /\ gout.overall.num = 50 * gout.overall.den
    /\ gout.items[3].order = 3

\* the answer gives generate no list to validate: the call failed, nothing
\* parsed, the value is no object, or the object lacks the expected key
\* (for the flowchart agent, both 'flowcharts' and 'nodes')
NoArtifactList(r) ==
    \/ r.call = "fails"
    \/ r.top # "dict"
    \/ ~r.holds /\ ~(r.agent = "flowchart" /\ r.nodes)

\* C17: on an answer without a usable list, every one of the four generate
\* operations returns a dictionary with success = false and an empty
\* artifact list under the agent's key.
C17_FailureResultShape ==
    (gin.agent # "none" /\ NoArtifactList(gin))
    => /\ ~gout.success
       /\ gout.error # NONE
       /\ gout.has_items
       /\ gout.items = <<>>

\* C28: on every successful search, in every state of the store (also with
\* an index that holds more or fewer vectors than the metadata file has
\* chunks), there are as many scores as chunks and the j-th score is the
\* distance between the query and the vector of the j-th chunk returned.
C28_ScoresMatchChunks ==
    (ret.op = "search" /\ ret.success)
    => LET mt == meta[ret.doc]
           ix == index[ret.doc]
       IN  /\ Len(ret.scores) = Len(ret.chunks)
           /\ \A j \in 1..Len(ret.chunks) :
                \E i \in 1..Min(Len(mt.chunks), Len(ix.vectors)) :
                    /\ ret.chunks[j] = mt.chunks[i]
                    /\ ret.scores[j] = L2(ix.vectors[i], ret.qemb[1])

\* every call on the store has returned
StoreQuiet == \A p \in Procs : pc[p] = "idle"

\* C29: once a delete_document and an add_document on one id that ran at
\* the same time have both returned, the store holds both files of the id or
\* none of them, never exactly one.
C29_DeleteAddLeaveBundleOrNothing ==
    StoreQuiet =>
        \A d \in ConcDocs : index[d].exists <=> meta[d].exists

(***************************************************************************)
(* Properties of the agent registry.                                       *)
(***************************************************************************)
\* the step is a call of get that returned an instance
GetReturned == rret'.op = "get" /\ rret'.ok

\* C18: get is case-insensitive in the name and caches by name plus
\* configuration: with no unregister or clear_cache in between, the first
\* call for a (lower-cased name, configuration) constructs exactly one
\* instance, for that configuration, and caches it; every later call with
\* that name and configuration returns the identical instance and constructs
\* nothing.
C18_GetCachesPerNameAndConfig ==
    [][ GetReturned =>
          LET k == <<Lower(rret'.arg), rret'.cfg>>
          IN  IF served[k] = 0
              THEN /\ ninst' = ninst + 1
                   /\ rret'.inst.id = ninst'
                   /\ rret'.inst.cfg = rret'.cfg
                   /\ instances'[cache_key(k[1], k[2])] = rret'.inst
              ELSE served[k] > 0 =>
                   /\ rret'.inst.id = served[k]
                   /\ ninst' = ninst ]_vars

\* the step is a call of get with a name that is not registered
GetUnknown == rret'.op = "get" /\ ~IsRegistered(agents, Lower(rret'.arg))

\* C19: get on a name that is not registered at the time of the call fails
\* with the not-found error, the error lists every registered name once and
\* nothing else, and neither the table of agents nor the cache of instances
\* changes.
C19_UnknownNameListsRegistered ==
    [][ GetUnknown =>
          /\ ~rret'.ok
          /\ rret'.error = "not_found"
          /\ Len(rret'.available) = Len(agents)
          /\ { rret'.available[i] : i \in 1..Len(rret'.available) }
                = { agents[i].name : i \in 1..Len(agents) }
          /\ agents' = agents
          /\ instances' = instances ]_vars

\* get("A") failed after "a" was taken out while "ad" stayed registered and
\* an instance had been constructed before
C19_Witness ==
    /\ rret.op = "get"
    /\ rret.arg = <<"A">>
    /\ rret.error = "not_found"
    /\ rret.available = << <<"a", "d">> >>
    /\ ninst = 1

\* the step is a call of unregister
Unregistered == rret'.op = "unregister"

\* the cached instances of the classes registered under the name
InstancesOf(cache, name) ==
    { k \in Keys : cache[k].id # 0 /\ Lower(AgentName[cache[k].cls]) = name }

\* C20: unregister(name) takes the name out of the table of agents and
\* leaves no cached instance of that name, with or without configuration, so
\* a get after a new register returns an instance constructed after the
\* unregister (every get returns a cached instance or a new one);
\* unregister of a name that is not registered changes neither the table
\* nor the cache.
C20_UnregisterEvictsName ==
    [][ /\ Unregistered =>
            LET name == Lower(rret'.arg)
            IN  /\ ~IsRegistered(agents', name)
                /\ InstancesOf(instances', name) = {}
                /\ ~IsRegistered(agents, name) =>
                        agents' = agents /\ instances' = instances
        /\ GetReturned =>
            \/ \E k \in Keys : instances[k] = rret'.inst
            \/ rret'.inst.id = ninst + 1 /\ ninst' = ninst + 1 ]_vars

\* C25: after any sequence of register, unregister, clear_cache and get, a
\* get that returns an instance returns one of the class registered under
\* the name at the time of the call, constructed with the configuration of
\* the call.
C25_GetReturnsRegisteredClassAndConfig ==
    [][ GetReturned =>
          /\ rret'.inst.cls = ClassOf(agents, Lower(rret'.arg))
          /\ rret'.inst.cfg = rret'.cfg ]_vars

\* the entries of the table of agents under other names than the given one
OtherAgents(table, name) == SelectSeq(table, LAMBDA e : e.name # name)

\* C26: unregister(name) leaves the table entry and the cached instances of
\* every other registered name as they were, names that start with name
\* included.
C26_UnregisterLeavesOthers ==
    [][ Unregistered =>
          LET name == Lower(rret'.arg)
          IN  /\ OtherAgents(agents', name) = OtherAgents(agents, name)
              /\ \A other \in RegNames \ {name} :
                    IsRegistered(agents, other) =>
                        \A k \in InstancesOf(instances, other) :
                            instances'[k] = instances[k] ]_vars

(***************************************************************************)
(* Properties of the agent registry under concurrent calls of get.        *)
(***************************************************************************)
\* every call of get has returned
AllReturned == \A p \in Procs : rpc[p] \in {"idle", "done"}

\* the cache entries that hold an instance made for the name and configuration
CachedFor(name, kwargs) ==
    { k \in Keys : /\ instances[k].id # 0
                   /\ Lower(AgentName[instances[k].cls]) = name
                   /\ instances[k].cfg = kwargs }

\* C21: once all concurrent calls of get have returned, the cache holds at
\* most one instance for each name and configuration, however many of the
\* callers constructed one.
C21_OneCachedPerKey ==
    AllReturned =>
        \A name \in RegNames, kwargs \in Cfgs :
            Cardinality(CachedFor(name, kwargs)) <= 1

\* two threads raced on the first access to ("a", c1): both constructed an
\* instance, both have returned, and one instance is cached
C21_Witness ==
    /\ AllReturned
    /\ \A p \in Procs :
          /\ rloc[p].name = <<"a">>
          /\ rloc[p].cfg = "c1"
          /\ rloc[p].made.id # 0
    /\ Cardinality(CachedFor(<<"a">>, "c1")) = 1

\* threads p and q called get with the same name and configuration
SameKey(p, q) == rloc[p].name = rloc[q].name /\ rloc[p].cfg = rloc[q].cfg

\* C27: callers of get that race on one (name, configuration) all receive
\* the same instance, and the constructor runs at most once for it.
C27_ConcurrentGetSharesInstance ==
    \A p, q \in Procs :
        (p # q /\ SameKey(p, q)) =>
            /\ (rloc[p].result.id # 0 /\ rloc[q].result.id # 0) =>
                    rloc[p].result = rloc[q].result
            /\ ~(rloc[p].made.id # 0 /\ rloc[q].made.id # 0)

(***************************************************************************)
(* Properties of the registrations at startup.                             *)
(***************************************************************************)
\* C30: once the agents package is imported, no get_agent call of a view
\* (summary, quiz, flashcard, flowchart, evaluation, podcast, chatbot) fails
\* with the not-found error.
C30_ViewAgentsRegistered ==
    [][ (imported = Len(PackageImports) /\ rret'.op = "get"
            /\ rret'.arg \in ViewNames)
          => rret'.error # "not_found" ]_vars

(***************************************************************************)
(* Properties of the operations around their external calls.              *)
(***************************************************************************)
\* C22: an operation that has made its external call returns to its caller
\* some time later even when the service never answers: the call is cut
\* off by a timeout and the operation returns a failure result.
C22_ExternalCallReturns ==
    \A p \in Procs : (xpc[p] = "waiting") ~> (xpc[p] = "returned")

(***************************************************************************)
(* Properties of the text splitter.                                        *)
(***************************************************************************)
\* the texts obtained by appending the chunks in order, each one without the
\* at most ChunkOverlap characters it repeats from the end of the text so far
RECURSIVE Rebuilt(_, _)
Rebuilt(sofar, chunks) ==
    IF chunks = <<>> THEN {sofar}
    ELSE LET c == Head(chunks)
             overlaps ==
                 { o \in 0..ChunkOverlap :
                     /\ o <= Len(c) /\ o <= Len(sofar)
                     /\ SubSeq(sofar, Len(sofar) - o + 1, Len(sofar)) = SubSeq(c, 1, o) }
         IN  UNION { Rebuilt(sofar \o SubSeq(c, o + 1, Len(c)), Tail(chunks)) :
                        o \in overlaps }

\* C23: the chunks of a text cover it: no chunk is longer than ChunkSize,
\* the chunks appended in order with their overlaps removed give the text
\* back exactly (so every character is in some chunk), and the empty text
\* gives no chunk.
C23_ChunksCoverText ==
    stext.given =>
        /\ \A i \in 1..Len(schunks) : Len(schunks[i]) <= ChunkSize
        /\ stext.text = <<>> => schunks = <<>>
        /\ stext.text # <<>> => stext.text \in Rebuilt(<<>>, schunks)

(***************************************************************************)
(* Properties of the response parsers.                                     *)
(***************************************************************************)
\* prose: words and braces, every "{" closed by a later "}"
RECURSIVE Depths(_, _)
Depths(t, d) ==
    IF t = <<>> THEN <<d>>
    ELSE <<d>> \o Depths(Tail(t), d + (IF Head(t) = "{" THEN 1
                                        ELSE IF Head(t) = "}" THEN -1 ELSE 0))

IsProse(t) ==
    /\ \A i \in 1..Len(t) : t[i] \in {"w", "{", "}"}
    /\ \A i \in 1..Len(t) + 1 : Depths(t, 0)[i] >= 0
    /\ Depths(t, 0)[Len(t) + 1] = 0

\* the text is prose, then the object { "questions": ... }, then prose
EmbedsObject(text) ==
    \E i \in 1..Len(text) - 2 :
        /\ SubSeq(text, i, i + 2) = <<"{", "k", "}">>
        /\ IsProse(SubSeq(text, 1, i - 1))
        /\ IsProse(SubSeq(text, i + 3, Len(text)))

\* C24: the parser tries the whole response, then a fenced block, then a
\* brace span with the expected key, and stops at the first that parses; a
\* response that embeds one object with the key in prose is parsed to that
\* object, also when the prose has braces of its own before or after it.
C24_CascadeFindsEmbeddedObject ==
    presp.given =>
        /\ json_loads(presp.text).ok => (pout.ok /\ pout.strategy = "whole")
        /\ EmbedsObject(presp.text) => (pout.ok /\ pout.key = "k")
====
